---- MODULE Spec2Model ----
(***************************************************************************)
(* Quiz session engine of the DarkstarAIC bot (src/app.py): the per-channel *)
(* QUIZ_STATE map, the /quiz_start, /quiz_answer, /quiz_end handlers, the   *)
(* answer buttons, the auto-end watcher and display_quiz_results; and the   *)
(* question generator: generate_quiz, deduplicate_questions,                *)
(* are_questions_similar and the topic and keyword extraction.              *)
(*                                                                         *)
(* Python strings are sequences of one-character strings, so that strip()   *)
(* and upper() are computed and not assumed.  A Python dict is the sequence *)
(* of its <<key, value>> items in insertion order.  The dict stored under   *)
(* a channel is an object: QUIZ_STATE[c] is a reference into heap, and a    *)
(* coroutine that read it before a suspension keeps the reference.          *)
(***************************************************************************)
EXTENDS Integers, Sequences, FiniteSets, Bags, TLC

VARIABLES now, QUIZ_STATE, heap, allocated, tasks, buttons, result,
          reported, removed, accepted, limits, gen, probe

vars == <<now, QUIZ_STATE, heap, allocated, tasks, buttons, result,
          reported, removed, accepted, limits, gen, probe>>

----------------------------------------------------------------------------
(* Bounds of the model *)

\* Spec explores three profiles of the session engine (Full, Wide, Racing
\* below); LiveSpec the fair behaviours of a smaller one; GenSpec one call
\* of generate_quiz; PureSpec single applications of the pure functions.
\* ReportSpec follows the reports of one session with their locals;
\* ChannelsSpec runs the handlers on SharedChannels channels.
NumChannels == 1
MaxTime == 1
LongestQuiz == 1
NumUsers == 2
PoolSize == 2
RaceSessions == 2
RaceInFlight == 2
SharedChannels == 2

(* Program constants *)

MinQuestions == 1
MaxQuestions == 10
MinDuration == 1
MaxDuration == 480
NumOptions == 4

Full ==
    [users |-> NumUsers, pool |-> PoolSize, sessions |-> 1,
     starts |-> 1, ends |-> 1, typed |-> { <<" ", "a">>, <<"e">> },
     history |-> FALSE, channels |-> NumChannels]

Wide ==
    [users |-> NumUsers, pool |-> 1, sessions |-> 1,
     starts |-> 1, ends |-> 1, typed |-> { <<" ", "b">>, <<"e">> },
     history |-> FALSE, channels |-> NumChannels]

Racing ==
    [users |-> 1, pool |-> 1, sessions |-> RaceSessions,
     starts |-> RaceInFlight, ends |-> 1, typed |-> { <<" ", "b">>, <<"e">> },
     history |-> FALSE, channels |-> NumChannels]

\* Two participants and two questions, with the history of the reports.
Reporting == [Full EXCEPT !.history = TRUE]

\* One session on each of two channels, one participant and one question.
TwoChannels ==
    [users |-> 1, pool |-> 1, sessions |-> SharedChannels, starts |-> 1,
     ends |-> 1, typed |-> { <<" ", "b">> }, history |-> FALSE,
     channels |-> SharedChannels]

Profiles == {Full, Wide, Racing}

Channels == 1..limits.channels
Users == 1..limits.users
Sids == 1..limits.sessions
NoRef == 0

----------------------------------------------------------------------------
(* Python strings *)

Whitespace == {" "}

Upper(ch) ==
    CASE ch = "a" -> "A"
      [] ch = "b" -> "B"
      [] ch = "c" -> "C"
      [] ch = "d" -> "D"
      [] ch = "e" -> "E"
      [] OTHER -> ch

RECURSIVE LStrip(_)
LStrip(s) ==
    IF s # <<>> /\ Head(s) \in Whitespace THEN LStrip(Tail(s)) ELSE s

RECURSIVE RStrip(_)
RStrip(s) ==
    IF s # <<>> /\ s[Len(s)] \in Whitespace
    THEN RStrip(SubSeq(s, 1, Len(s) - 1))
    ELSE s

Strip(s) == RStrip(LStrip(s))

UpperStr(s) == [i \in 1..Len(s) |-> Upper(s[i])]

StripUpper(s) == UpperStr(Strip(s))

Digit(n) ==
    CASE n = 0 -> "0" [] n = 1 -> "1" [] n = 2 -> "2" [] n = 3 -> "3"
      [] n = 4 -> "4" [] n = 5 -> "5" [] n = 6 -> "6" [] n = 7 -> "7"
      [] n = 8 -> "8" [] n = 9 -> "9"

RECURSIVE Str(_)
Str(n) == IF n < 10 THEN <<Digit(n)>> ELSE Str(n \div 10) \o <<Digit(n % 10)>>

choices == << <<"A">>, <<"B">>, <<"C">>, <<"D">> >>

ValidChoices == {choices[i] : i \in 1..Len(choices)}

Chr(i) == choices[i + 1]

Ord(letter) == CHOOSE i \in 0..(Len(choices) - 1) : choices[i + 1] = letter

----------------------------------------------------------------------------
(* Topic and keyword extraction, the similarity rules and the deduplicator *)

LowerLetters ==
    <<"a", "b", "c", "d", "e", "f", "g", "h", "i", "j", "k", "l", "m", "n",
     "o", "p", "q", "r", "s", "t", "u", "v", "w", "x", "y", "z">>

UpperLetters ==
    <<"A", "B", "C", "D", "E", "F", "G", "H", "I", "J", "K", "L", "M", "N",
     "O", "P", "Q", "R", "S", "T", "U", "V", "W", "X", "Y", "Z">>

Letters(alphabet) == {alphabet[i] : i \in 1..Len(alphabet)}

\* str.lower()
Lower(ch) ==
    IF ch \in Letters(UpperLetters)
    THEN LowerLetters[CHOOSE i \in 1..Len(UpperLetters) : UpperLetters[i] = ch]
    ELSE ch

LowerStr(s) == [i \in 1..Len(s) |-> Lower(s[i])]

\* The characters the regular expression class \w matches.
WordChars ==
    Letters(LowerLetters) \cup Letters(UpperLetters)
        \cup {Digit(n) : n \in 0..9} \cup {"_"}

\* The maximal runs of \w characters of s, run being the run in progress.
RECURSIVE Runs(_, _)
Runs(s, run) ==
    LET closed == IF run = <<>> THEN <<>> ELSE <<run>>
    IN  IF s = <<>> THEN closed
        ELSE IF Head(s) \in WordChars
        THEN Runs(Tail(s), Append(run, Head(s)))
        ELSE closed \o Runs(Tail(s), <<>>)

\* re.findall(r'\b[a-z]+\b', text): between two word boundaries lies a
\* maximal run of \w characters, and it matches when all of it is a-z.
IsLowerWord(w) == \A i \in 1..Len(w) : w[i] \in Letters(LowerLetters)

FindWords(text) == SelectSeq(Runs(text, <<>>), IsLowerWord)

STOPWORDS ==
    {<<"t", "h", "e">>,
     <<"a">>,
     <<"a", "n">>,
     <<"a", "n", "d">>,
     <<"o", "r">>,
     <<"b", "u", "t">>,
     <<"i", "n">>,
     <<"o", "n">>,
     <<"a", "t">>,
     <<"t", "o">>,
     <<"f", "o", "r">>,
     <<"o", "f">>,
     <<"w", "i", "t", "h">>,
     <<"b", "y">>,
     <<"f", "r", "o", "m">>,
     <<"i", "s">>,
     <<"a", "r", "e">>,
     <<"w", "a", "s">>,
     <<"w", "e", "r", "e">>,
     <<"b", "e">>,
     <<"b", "e", "e", "n">>,
     <<"b", "e", "i", "n", "g">>,
     <<"h", "a", "v", "e">>,
     <<"h", "a", "s">>,
     <<"h", "a", "d">>,
     <<"d", "o">>,
     <<"d", "o", "e", "s">>,
     <<"d", "i", "d">>,
     <<"w", "i", "l", "l">>,
     <<"w", "o", "u", "l", "d">>,
     <<"s", "h", "o", "u", "l", "d">>,
     <<"c", "o", "u", "l", "d">>,
     <<"m", "a", "y">>,
     <<"m", "i", "g", "h", "t">>,
     <<"m", "u", "s", "t">>,
     <<"c", "a", "n">>,
     <<"w", "h", "a", "t">>,
     <<"w", "h", "i", "c", "h">>,
     <<"w", "h", "o">>,
     <<"w", "h", "e", "n">>,
     <<"w", "h", "e", "r", "e">>,
     <<"w", "h", "y">>,
     <<"h", "o", "w">>,
     <<"t", "h", "i", "s">>,
     <<"t", "h", "a", "t">>,
     <<"t", "h", "e", "s", "e">>,
     <<"t", "h", "o", "s", "e">>}

\* Faulty variant (sensitivity of C33): words of three letters count.
IsContentWordOfThree(w) == w \notin STOPWORDS /\ Len(w) >= 3

IsContentWord(w) == w \notin STOPWORDS /\ Len(w) > 3

ContentWords(text) == SelectSeq(FindWords(text), IsContentWord)

\* The keys of Counter(words), in the order of their first occurrence.
RECURSIVE Distinct(_)
Distinct(words) ==
    IF words = <<>> THEN <<>>
    ELSE LET rest == Distinct(SubSeq(words, 1, Len(words) - 1))
             last == words[Len(words)]
         IN  IF \E i \in 1..Len(rest) : rest[i] = last
             THEN rest ELSE Append(rest, last)

Counter(words) ==
    LET keys == Distinct(words)
    IN  [k \in 1..Len(keys) |->
            <<keys[k], Cardinality({i \in 1..Len(words) : words[i] = keys[k]})>>]

Prefix(s, n) == SubSeq(s, 1, IF n < Len(s) THEN n ELSE Len(s))

----------------------------------------------------------------------------
(* Python dicts: sequences of <<key, value>> items in insertion order *)

Keys(d) == {d[i][1] : i \in 1..Len(d)}

HasKey(d, k) == k \in Keys(d)

Get(d, k) == d[CHOOSE i \in 1..Len(d) : d[i][1] = k][2]

SetItemFirstWins(d, k, v) ==
    IF HasKey(d, k) THEN d ELSE Append(d, <<k, v>>)

SetItem(d, k, v) ==
    IF HasKey(d, k)
    THEN [i \in 1..Len(d) |-> IF d[i][1] = k THEN <<k, v>> ELSE d[i]]
    ELSE Append(d, <<k, v>>)

----------------------------------------------------------------------------
(* Questions, the generator's possible results and the option shuffler *)

PoolQuestion(k) ==
    [q |-> <<"q">> \o Str(k),
     options |-> [i \in 1..NumOptions |-> <<"o">> \o Str(k) \o Str(i)],
     answer |-> Chr((k - 1) % NumOptions),
     explain |-> <<"x">> \o Str(k),
     topic |-> <<"t">> \o Str(k),
     page |-> k]

\* What generate_quiz(num_questions) may return to quiz_start: None (here the
\* empty sequence, equally falsy) or between 1 and num_questions questions.
GenerateQuizResults(num_questions) ==
    {<<>>} \cup
    {[i \in 1..k |-> PoolQuestion(i)] :
        k \in {j \in 1..limits.pool : j <= num_questions}}

\* The orders random.shuffle is let to produce in the session model:
\* position i of the shuffled list receives the element at position perm[i].
SessionPerms == { <<1, 2, 3, 4>>, <<2, 1, 4, 3>> }

\* The optional fields of a question that shuffle_quiz_options copies.
Preserved(question) ==
    {field \in {"topic", "page"} : field \in DOMAIN question}

\* The dict built from the four required fields and the preserved ones.
Shuffled(question, options, answer) ==
    LET required == [q |-> question.q, options |-> options,
                     answer |-> answer, explain |-> question.explain]
    IN  [field \in DOMAIN required \cup Preserved(question) |->
            IF field \in DOMAIN required THEN required[field]
            ELSE question[field]]

\* Faulty variant (sensitivity of C21): the correct option is looked up by
\* its text after the shuffle.
shuffle_quiz_options_ByValue(question, perm) ==
    LET answer_letter == StripUpper(question.answer)
        answer_index == Ord(answer_letter)
        options == [i \in 1..Len(question.options) |->
                       question.options[perm[i]]]
        new_answer_index ==
            (CHOOSE i \in 1..Len(options) :
                /\ options[i] = question.options[answer_index + 1]
                /\ \A j \in 1..(i - 1) :
                       options[j] # question.options[answer_index + 1]) - 1
    IN  Shuffled(question, options, Chr(new_answer_index))

\* Faulty variant (sensitivity of C22): the page reference is not copied.
shuffle_quiz_options_WithoutPage(question, perm) ==
    LET answer_letter == StripUpper(question.answer)
        answer_index == Ord(answer_letter)
        new_answer_index ==
            (CHOOSE i \in 1..Len(question.options) :
                perm[i] = answer_index + 1) - 1
        whole == Shuffled(question,
                     [i \in 1..Len(question.options) |->
                         question.options[perm[i]]],
                     Chr(new_answer_index))
    IN  [field \in DOMAIN whole \ {"page"} |-> whole[field]]

shuffle_quiz_options(question, perm) ==
    LET answer_letter == StripUpper(question.answer)
        answer_index == Ord(answer_letter)
        original == [i \in 1..Len(question.options) |->
                        <<question.options[i], (i - 1) = answer_index>>]
        options_with_correctness ==
            [i \in 1..Len(original) |-> original[perm[i]]]
        new_answer_index ==
            (CHOOSE i \in 1..Len(options_with_correctness) :
                /\ options_with_correctness[i][2]
                /\ \A j \in 1..(i - 1) : ~options_with_correctness[j][2]) - 1
    IN  Shuffled(question,
                 [i \in 1..Len(options_with_correctness) |->
                     options_with_correctness[i][1]],
                 Chr(new_answer_index))

\* The dict passed to shuffle_quiz_options, after the call: the function
\* assigns to none of its keys and shuffles a list of its own.
Argument(question, perm) == question

----------------------------------------------------------------------------
(* Scoring, as display_quiz_results computes it *)

\* Faulty variant (sensitivity of C9): every answered question scores.
ScoreOfAnswered(answers, questions) == Len(answers)

RECURSIVE ScoreOf(_, _)
ScoreOf(answers, questions) ==
    IF answers = <<>> THEN 0
    ELSE LET q_idx == Head(answers)[1]
             choice == Head(answers)[2]
             hit == /\ q_idx < Len(questions)
                    /\ choice = StripUpper(questions[q_idx + 1].answer)
         IN  (IF hit THEN 1 ELSE 0) + ScoreOf(Tail(answers), questions)

Scores(user_answers, questions) ==
    [i \in 1..Len(user_answers) |->
        <<user_answers[i][1], ScoreOf(user_answers[i][2], questions)>>]

\* sorted(scores.items(), key=score, reverse=True): stable, so items with the
\* same score keep the order of the dict.
InsertByScoreTiesReversed(sorted, item) ==
    LET n == Cardinality({i \in 1..Len(sorted) : sorted[i][2] > item[2]})
    IN  SubSeq(sorted, 1, n) \o <<item>> \o SubSeq(sorted, n + 1, Len(sorted))

InsertByScore(sorted, item) ==
    LET n == Cardinality({i \in 1..Len(sorted) : sorted[i][2] >= item[2]})
    IN  SubSeq(sorted, 1, n) \o <<item>> \o SubSeq(sorted, n + 1, Len(sorted))

RECURSIVE SortedByScore(_)
SortedByScore(items) ==
    IF items = <<>> THEN <<>>
    ELSE InsertByScore(SortedByScore(SubSeq(items, 1, Len(items) - 1)),
                       items[Len(items)])

\* Faulty variant (sensitivity of C11): a participant without an answer for
\* the question counts as having answered it wrongly.
RECURSIVE UsersWhereOrUnanswered(_, _, _, _)
UsersWhereOrUnanswered(user_answers, idx, letter, want_equal) ==
    IF user_answers = <<>> THEN <<>>
    ELSE LET user_id == Head(user_answers)[1]
             answers == Head(user_answers)[2]
             rest == UsersWhereOrUnanswered(Tail(user_answers), idx, letter,
                                            want_equal)
             equal == HasKey(answers, idx) /\ Get(answers, idx) = letter
         IN  IF equal = want_equal THEN <<user_id>> \o rest ELSE rest

RECURSIVE UsersWhere(_, _, _, _)
UsersWhere(user_answers, idx, letter, want_equal) ==
    IF user_answers = <<>> THEN <<>>
    ELSE LET user_id == Head(user_answers)[1]
             answers == Head(user_answers)[2]
             rest == UsersWhere(Tail(user_answers), idx, letter, want_equal)
         IN  IF HasKey(answers, idx) /\ ((Get(answers, idx) = letter) = want_equal)
             THEN <<user_id>> \o rest
             ELSE rest

----------------------------------------------------------------------------
(* extract_keywords, extract_topic_from_question, are_questions_similar and
   deduplicate_questions *)

\* Counter.most_common(n): the n most frequent words, equally frequent ones
\* in the order of their first occurrence.
most_common(words, n) ==
    LET top == Prefix(SortedByScore(Counter(words)), n)
    IN  [i \in 1..Len(top) |-> top[i][1]]

TopKeywords == 5

TopicWords == 3

extract_keywords(text) ==
    LET content_words == ContentWords(LowerStr(text))
        top == most_common(content_words, TopKeywords)
    IN  IF content_words = <<>> THEN {}
        ELSE {top[i] : i \in 1..Len(top)}

\* A question is a record; a field the dict does not have is not in its
\* domain.  d.get(key, "")
GetOr(d, key, default) == IF key \in DOMAIN d THEN d[key] ELSE default

Unknown == <<"u", "n", "k", "n", "o", "w", "n">>

extract_topic_from_question(question_dict) ==
    IF "topic" \in DOMAIN question_dict /\ question_dict.topic # <<>>
    THEN Strip(LowerStr(question_dict.topic))
    ELSE LET question_text == LowerStr(GetOr(question_dict, "q", <<>>))
             content_words == ContentWords(question_text)
             top_words == most_common(content_words, TopicWords)
         IN  IF content_words = <<>> THEN Unknown
             ELSE IF Len(top_words) >= 2
             THEN top_words[1] \o <<"-">> \o top_words[2]
             ELSE top_words[1]

\* One row of the table of longest common subsequences: acc holds the
\* entries already computed for the prefixes of b.
RECURSIVE LcsRow(_, _, _, _)
LcsRow(prev, ch, b, acc) ==
    IF Len(acc) = Len(b) THEN acc
    ELSE LET j == Len(acc) + 1
             left == IF j = 1 THEN 0 ELSE acc[j - 1]
             diag == IF j = 1 THEN 0 ELSE prev[j - 1]
             entry == IF b[j] = ch THEN diag + 1
                      ELSE IF prev[j] > left THEN prev[j] ELSE left
         IN  LcsRow(prev, ch, b, Append(acc, entry))

RECURSIVE LcsRows(_, _, _)
LcsRows(a, b, prev) ==
    IF a = <<>> THEN prev
    ELSE LcsRows(Tail(a), b, LcsRow(prev, Head(a), b, <<>>))

Lcs(a, b) ==
    IF b = <<>> THEN 0 ELSE LcsRows(a, b, [j \in 1..Len(b) |-> 0])[Len(b)]

\* round(): to the nearest integer, a half to the even one.
RoundDiv(num, den) ==
    LET q == num \div den
        r == num % den
    IN  IF 2 * r > den \/ (2 * r = den /\ q % 2 = 1) THEN q + 1 ELSE q

\* fuzz.ratio(s1, s2) of fuzzywuzzy: 100 for equal strings, 0 when one is
\* empty, else 100 * 2M / T rounded, M the number of matching characters
\* (the longest common subsequence, as python-Levenshtein counts them) and
\* T the total length.
FuzzRatio(s1, s2) ==
    IF s1 = s2 THEN 100
    ELSE IF s1 = <<>> \/ s2 = <<>> THEN 0
    ELSE RoundDiv(100 * 2 * Lcs(s1, s2), Len(s1) + Len(s2))

RatioThreshold == 85

\* overlap / total > 0.4, on integers.
OverlapTenths == 4

\* Faulty variant (sensitivity of C20): the shared keywords are measured
\* against the keywords of the first question, not against the union.
are_questions_similar_OverlapOfFirst(q1, q2, topic1, topic2) ==
    IF topic1 = topic2 THEN TRUE
    ELSE LET text1 == GetOr(q1, "q", <<>>)
             text2 == GetOr(q2, "q", <<>>)
             keywords1 == extract_keywords(text1)
             keywords2 == extract_keywords(text2)
             overlap == Cardinality(keywords1 \cap keywords2)
             total == Cardinality(keywords1)
         IN  IF FuzzRatio(LowerStr(text1), LowerStr(text2)) > RatioThreshold
             THEN TRUE
             ELSE IF keywords1 # {} /\ keywords2 # {}
             THEN total > 0 /\ 10 * overlap > OverlapTenths * total
             ELSE FALSE

are_questions_similar(q1, q2, topic1, topic2) ==
    IF topic1 = topic2 THEN TRUE
    ELSE LET text1 == GetOr(q1, "q", <<>>)
             text2 == GetOr(q2, "q", <<>>)
             keywords1 == extract_keywords(text1)
             keywords2 == extract_keywords(text2)
             overlap == Cardinality(keywords1 \cap keywords2)
             total == Cardinality(keywords1 \cup keywords2)
         IN  IF FuzzRatio(LowerStr(text1), LowerStr(text2)) > RatioThreshold
             THEN TRUE
             ELSE IF keywords1 # {} /\ keywords2 # {}
             THEN total > 0 /\ 10 * overlap > OverlapTenths * total
             ELSE FALSE

\* Whether q with its topic is similar to one of the questions of unique,
\* whose topics are topics: the loop over zip(unique, topics).
IsDuplicate(q, topic, unique, topics) ==
    \E i \in 1..(IF Len(unique) < Len(topics) THEN Len(unique) ELSE Len(topics)) :
        are_questions_similar(q, unique[i], topic, topics[i])

\* Faulty variant (sensitivity of C19): a question is compared with every
\* earlier question of the input, accepted or not.
RECURSIVE deduplicate_questions_AllEarlier(_)
deduplicate_questions_AllEarlier(questions) ==
    IF questions = <<>> THEN << <<>>, <<>> >>
    ELSE LET n == Len(questions)
             before == deduplicate_questions_AllEarlier(
                           SubSeq(questions, 1, n - 1))
             q == questions[n]
             topic == extract_topic_from_question(q)
         IN  IF \E i \in 1..(n - 1) :
                    are_questions_similar(q, questions[i], topic,
                        extract_topic_from_question(questions[i]))
             THEN before
             ELSE <<Append(before[1], q), Append(before[2], topic)>>

\* Faulty variant (sensitivity of C18): a question is compared with the
\* question before it in the input only.
RECURSIVE deduplicate_questions_PreviousOnly(_)
deduplicate_questions_PreviousOnly(questions) ==
    IF questions = <<>> THEN << <<>>, <<>> >>
    ELSE LET n == Len(questions)
             before == deduplicate_questions_PreviousOnly(
                           SubSeq(questions, 1, n - 1))
             q == questions[n]
             topic == extract_topic_from_question(q)
         IN  IF n > 1 /\ are_questions_similar(q, questions[n - 1], topic,
                             extract_topic_from_question(questions[n - 1]))
             THEN before
             ELSE <<Append(before[1], q), Append(before[2], topic)>>

\* deduplicate_questions(questions): <<unique, topics>>.
RECURSIVE deduplicate_questions(_)
deduplicate_questions(questions) ==
    IF questions = <<>> THEN << <<>>, <<>> >>
    ELSE LET before == deduplicate_questions(
                           SubSeq(questions, 1, Len(questions) - 1))
             q == questions[Len(questions)]
             topic == extract_topic_from_question(q)
         IN  IF IsDuplicate(q, topic, before[1], before[2])
             THEN before
             ELSE <<Append(before[1], q), Append(before[2], topic)>>

----------------------------------------------------------------------------
(* State *)

\* The dict quiz_start stores under a channel; FreeCell is a heap cell that
\* holds no dict (never allocated, or no longer referenced).
FreeCell ==
    [questions |-> <<>>, user_answers |-> <<>>, end_time |-> 0,
     duration_minutes |-> 0, initiator |-> 0]

\* A suspended coroutine: a /quiz_start between defer and the return of
\* generate_quiz ("start"), a /quiz_end ("manual") or an auto_end_quiz task
\* ("auto"), with the locals it holds across its suspension points.
\* own is history: the session an auto_end_quiz task was scheduled for;
\* the rest is kept in the profile that follows the reports: scores is the
\* local scores_sorted of display_quiz_results, scored (history) the answers
\* it was computed from, listed (history) the participants the breakdowns
\* sent so far list as correct, with the question.
NewTask(kind, channel, pc) ==
    [kind |-> kind, channel |-> channel, pc |-> pc, user |-> 0,
     num_questions |-> 0, duration |-> 0, wake |-> 0, own |-> NoRef,
     state |-> NoRef, idx |-> 0, scores |-> <<>>, scored |-> {},
     listed |-> {}]

TaskSet == BagToSet(tasks)

CountKind(kind) ==
    BagCardinality([t \in {x \in TaskSet : x.kind = kind} |-> tasks[t]])


Spawn(T, t) == T (+) SetToBag({t})

Finish(T, t) == T (-) SetToBag({t})

\* What a handler step answers or sends.  The leaderboard, the description
\* of its embed and the lists of a question's results are the content of the
\* message; session (the dict the
\* message reports on) and replaced (the letter an accepted answer took the
\* place of) are history.
Result(op, kind) ==
    [op |-> op, kind |-> kind, session |-> NoRef, scores_sorted |-> <<>>,
     correct_users |-> <<>>, incorrect_users |-> <<>>, replaced |-> <<>>,
     progress |-> <<>>, description |-> ""]

NoHistory == [latest |-> {}, order |-> <<>>]

\* Reference counting: a dict lives while QUIZ_STATE or a coroutine holds it.
Referenced(Q, T) ==
    ({Q[c] : c \in Channels} \cup {t.state : t \in BagToSet(T)}) \ {NoRef}

Collect(h, Q, T) ==
    [s \in Sids |-> IF s \in Referenced(Q, T) THEN h[s] ELSE FreeCell]

CollectHistory(a, Q, T) ==
    [s \in Sids |-> IF s \in Referenced(Q, T) THEN a[s] ELSE NoHistory]

\* generate_quiz before it is called: its locals, the number of requests
\* sent to the question source and what it returned.
GenIdle ==
    [pc |-> "idle", num_questions |-> 0, calls |-> 0, attempt |-> 0,
     unique_questions |-> <<>>, used_topics |-> <<>>,
     returned |-> "pending", value |-> <<>>]

\* No pure function is under test.
NoProbe == [fn |-> "none"]

\* No session has been started.
NoSessions ==
    /\ now = 0
    /\ QUIZ_STATE = [c \in Channels |-> NoRef]
    /\ heap = [s \in Sids |-> FreeCell]
    /\ allocated = 0
    /\ tasks = EmptyBag
    /\ buttons = [c \in Channels |-> {}]
    /\ result = Result("none", "none")
    /\ reported = [s \in Sids |-> 0]
    /\ removed = [s \in Sids |-> <<>>]
    /\ accepted = [s \in Sids |-> NoHistory]

Init ==
    /\ limits \in Profiles
    /\ gen = GenIdle
    /\ probe = NoProbe
    /\ NoSessions

----------------------------------------------------------------------------
(* Inputs of the handlers *)

QuestionCounts == {MinQuestions - 1, limits.pool, MaxQuestions + 1}

Durations == {MinDuration - 1, MaxDuration + 1} \cup 1..LongestQuiz

Initiators == {1}

\* The button of a posted question that is clicked, and the choice text
\* typed into /quiz_answer.
ClickedChoices == {choices[1]}

TypedChoices == limits.typed

QuestionNumbers == 0..(limits.pool + 1)

----------------------------------------------------------------------------
(* Time *)

Tick ==
    /\ now < MaxTime
    /\ now' = now + 1
    /\ UNCHANGED <<gen, probe, limits, QUIZ_STATE, heap, allocated, tasks, buttons,
                   result, reported, removed, accepted>>

----------------------------------------------------------------------------
(* /quiz_start *)

StartsInFlight == CountKind("start")

Reply(op, kind) ==
    /\ result' = Result(op, kind)
    /\ UNCHANGED <<gen, probe, limits, now, QUIZ_STATE, heap, allocated, tasks, buttons,
                   reported, removed, accepted>>

\* Faulty variant (sensitivity of C23): the duration is not checked.
quiz_start_DurationUnchecked(channel_id, user, questions, duration) ==
    IF questions < MinQuestions \/ questions > MaxQuestions
    THEN Reply("quiz_start", "InvalidQuestionCount")
    ELSE IF QUIZ_STATE[channel_id] # NoRef
    THEN Reply("quiz_start", "AlreadyRunning")
    ELSE /\ StartsInFlight < limits.starts
         /\ allocated + StartsInFlight < limits.sessions
         /\ tasks' = Spawn(tasks,
                [NewTask("start", channel_id, "generate") EXCEPT
                    !.user = user, !.num_questions = questions,
                    !.duration = duration])
         /\ result' = Result("quiz_start", "Deferred")
         /\ UNCHANGED <<gen, probe, limits, now, QUIZ_STATE, heap, allocated, buttons,
                        reported, removed, accepted>>

\* From the checks of the command's arguments to the suspension at defer()
\* (the check of the bot's Discord permissions before them is the platform's).
quiz_start(channel_id, user, questions, duration) ==
    IF questions < MinQuestions \/ questions > MaxQuestions
    THEN Reply("quiz_start", "InvalidQuestionCount")
    ELSE IF duration < MinDuration \/ duration > MaxDuration
    THEN Reply("quiz_start", "InvalidDuration")
    ELSE IF QUIZ_STATE[channel_id] # NoRef
    THEN Reply("quiz_start", "AlreadyRunning")
    ELSE /\ StartsInFlight < limits.starts
         /\ allocated + StartsInFlight < limits.sessions
         /\ tasks' = Spawn(tasks,
                [NewTask("start", channel_id, "generate") EXCEPT
                    !.user = user, !.num_questions = questions,
                    !.duration = duration])
         /\ result' = Result("quiz_start", "Deferred")
         /\ UNCHANGED <<gen, probe, limits, now, QUIZ_STATE, heap, allocated, buttons,
                        reported, removed, accepted>>

\* generate_quiz returned nothing: the failure is reported and the handler
\* returns.
quiz_start_failed(t) ==
    /\ tasks' = Finish(tasks, t)
    /\ result' = Result("quiz_start", "GenerationFailed")
    /\ UNCHANGED <<probe, limits, now, QUIZ_STATE, heap, allocated, buttons,
                   reported, removed, accepted>>

\* The questions are shuffled, the session is stored under the channel, the
\* deadline watcher is created and the questions are posted.
quiz_start_session(t, quiz_questions) ==
    \E perms \in [1..Len(quiz_questions) -> SessionPerms] :
    LET shuffled_questions ==
            [i \in 1..Len(quiz_questions) |->
                shuffle_quiz_options(quiz_questions[i], perms[i])]
        end_time == now + t.duration
        sid == allocated + 1
        state == [questions |-> shuffled_questions,
                  user_answers |-> <<>>,
                  end_time |-> end_time,
                  duration_minutes |-> t.duration,
                  initiator |-> t.user]
        watcher == [NewTask("auto", t.channel, "sleep") EXCEPT
                       !.duration = t.duration,
                       !.wake = now + t.duration,
                       !.own = sid]
        Q2 == [QUIZ_STATE EXCEPT ![t.channel] = sid]
        T2 == Spawn(Finish(tasks, t), watcher)
    IN  /\ QUIZ_STATE' = Q2
        /\ tasks' = T2
        /\ heap' = Collect([heap EXCEPT ![sid] = state], Q2, T2)
        /\ accepted' = CollectHistory(accepted, Q2, T2)
        /\ allocated' = sid
        /\ buttons' = [buttons EXCEPT ![t.channel] =
                          @ \cup 0..(Len(shuffled_questions) - 1)]
        /\ result' = Result("quiz_start", "Started")
        /\ UNCHANGED <<probe, limits, now, reported, removed>>

\* Faulty variant (sensitivity of C34): the returned value is not tested.
quiz_start_returned_Unchecked(t, quiz_questions) ==
    quiz_start_session(t, quiz_questions)

\* From the return of generate_quiz, with the value it returned, to the end
\* of the handler.
quiz_start_returned(t, quiz_questions) ==
    IF quiz_questions = <<>>
    THEN quiz_start_failed(t)
    ELSE quiz_start_session(t, quiz_questions)

\* The same, for any value generate_quiz may return.
quiz_start_generated(t) ==
    /\ t \in TaskSet
    /\ t.kind = "start"
    /\ \E quiz_questions \in GenerateQuizResults(t.num_questions) :
           quiz_start_returned(t, quiz_questions)
    /\ UNCHANGED gen

----------------------------------------------------------------------------
(* Answer submission: the button callback and /quiz_answer *)

StoreAnswerFirstWins(state, user_id, question_idx, choice) ==
    LET initialized == IF ~HasKey(state.user_answers, user_id)
                       THEN SetItem(state.user_answers, user_id, <<>>)
                       ELSE state.user_answers
    IN  [state EXCEPT !.user_answers =
            SetItem(initialized, user_id,
                    SetItemFirstWins(Get(initialized, user_id),
                                     question_idx, choice))]

\* Faulty variant (sensitivity of C28): the whole mapping is replaced by one
\* that holds the new answer only.
StoreAnswerFreshMap(state, user_id, question_idx, choice) ==
    [state EXCEPT !.user_answers =
        SetItem(<<>>, user_id, SetItem(<<>>, question_idx, choice))]

\* Faulty variant (sensitivity of C29): the participant's dict is replaced
\* by one that holds the new answer only.
StoreAnswerFreshDict(state, user_id, question_idx, choice) ==
    [state EXCEPT !.user_answers =
        SetItem(state.user_answers, user_id,
                SetItem(<<>>, question_idx, choice))]

StoreAnswer(state, user_id, question_idx, choice) ==
    LET initialized == IF ~HasKey(state.user_answers, user_id)
                       THEN SetItem(state.user_answers, user_id, <<>>)
                       ELSE state.user_answers
    IN  [state EXCEPT !.user_answers =
            SetItem(initialized, user_id,
                    SetItem(Get(initialized, user_id), question_idx, choice))]

Record(h, user_id, question_idx, choice) ==
    [latest |-> {x \in h.latest : <<x[1], x[2]>> # <<user_id, question_idx>>}
                    \cup {<<user_id, question_idx, choice>>},
     order |-> IF \E i \in 1..Len(h.order) : h.order[i] = user_id
               THEN h.order ELSE Append(h.order, user_id)]

Previous(state, user_id, question_idx) ==
    IF /\ HasKey(state.user_answers, user_id)
       /\ HasKey(Get(state.user_answers, user_id), question_idx)
    THEN Get(Get(state.user_answers, user_id), question_idx)
    ELSE <<>>

Recorded(op, sid, user_id, question_idx, choice) ==
    /\ heap' = [heap EXCEPT ![sid] =
                   StoreAnswer(heap[sid], user_id, question_idx, choice)]
    /\ accepted' = [accepted EXCEPT ![sid] =
                       Record(@, user_id, question_idx, choice)]
    /\ result' = [Result(op, "Recorded") EXCEPT
                      !.session = sid,
                      !.replaced = Previous(heap[sid], user_id, question_idx)]
    /\ UNCHANGED <<gen, probe, limits, now, QUIZ_STATE, allocated, tasks, buttons,
                   reported, removed>>

\* Faulty variant (sensitivity of C6): the deadline itself is still open.
callback_OpenAtDeadline(channel_id, user, question_idx, choice) ==
    /\ question_idx \in buttons[channel_id]
    /\ LET sid == QUIZ_STATE[channel_id]
           state == heap[sid]
       IN  IF sid = NoRef
           THEN Reply("callback", "NoActiveSession")
           ELSE IF now > state.end_time
           THEN Reply("callback", "SessionEnded")
           ELSE IF question_idx < 0 \/ question_idx >= Len(state.questions)
           THEN Reply("callback", "InvalidQuestionIndex")
           ELSE Recorded("callback", sid, Str(user), question_idx, choice)

callback(channel_id, user, question_idx, choice) ==
    /\ question_idx \in buttons[channel_id]
    /\ LET sid == QUIZ_STATE[channel_id]
           state == heap[sid]
       IN  IF sid = NoRef
           THEN Reply("callback", "NoActiveSession")
           ELSE IF now >= state.end_time
           THEN Reply("callback", "SessionEnded")
           ELSE IF question_idx < 0 \/ question_idx >= Len(state.questions)
           THEN Reply("callback", "InvalidQuestionIndex")
           ELSE Recorded("callback", sid, Str(user), question_idx, choice)

\* Faulty variant (sensitivity of C7): the participant's entry is created
\* before the question index is checked.
quiz_answer_EntryBeforeIndexCheck(channel_id, user, question_number, typed) ==
    LET choice == StripUpper(typed)
        sid == QUIZ_STATE[channel_id]
        state == heap[sid]
        question_idx == question_number - 1
        user_id == Str(user)
    IN  IF choice \notin ValidChoices
        THEN Reply("quiz_answer", "InvalidChoice")
        ELSE IF sid = NoRef
        THEN Reply("quiz_answer", "NoActiveSession")
        ELSE IF now >= state.end_time
        THEN Reply("quiz_answer", "SessionEnded")
        ELSE IF question_idx < 0 \/ question_idx >= Len(state.questions)
        THEN /\ heap' = [heap EXCEPT ![sid].user_answers =
                            IF HasKey(@, user_id) THEN @
                            ELSE SetItem(@, user_id, <<>>)]
             /\ result' = Result("quiz_answer", "InvalidQuestionIndex")
             /\ UNCHANGED <<gen, probe, limits, now, QUIZ_STATE, allocated, tasks, buttons,
                            reported, removed, accepted>>
        ELSE Recorded("quiz_answer", sid, user_id, question_idx, choice)

\* Faulty variant (sensitivity of C8): the letter is checked last.
quiz_answer_ChoiceCheckedLast(channel_id, user, question_number, typed) ==
    LET choice == StripUpper(typed)
        sid == QUIZ_STATE[channel_id]
        state == heap[sid]
        question_idx == question_number - 1
    IN  IF sid = NoRef
        THEN Reply("quiz_answer", "NoActiveSession")
        ELSE IF now >= state.end_time
        THEN Reply("quiz_answer", "SessionEnded")
        ELSE IF question_idx < 0 \/ question_idx >= Len(state.questions)
        THEN Reply("quiz_answer", "InvalidQuestionIndex")
        ELSE IF choice \notin ValidChoices
        THEN Reply("quiz_answer", "InvalidChoice")
        ELSE Recorded("quiz_answer", sid, Str(user), question_idx, choice)

\* Faulty variant (sensitivity of C38): the question number is not checked.
quiz_answer_IndexUnchecked(channel_id, user, question_number, typed) ==
    LET choice == StripUpper(typed)
        sid == QUIZ_STATE[channel_id]
        state == heap[sid]
        question_idx == question_number - 1
    IN  IF choice \notin ValidChoices
        THEN Reply("quiz_answer", "InvalidChoice")
        ELSE IF sid = NoRef
        THEN Reply("quiz_answer", "NoActiveSession")
        ELSE IF now >= state.end_time
        THEN Reply("quiz_answer", "SessionEnded")
        ELSE Recorded("quiz_answer", sid, Str(user), question_idx, choice)

quiz_answer(channel_id, user, question_number, typed) ==
    LET choice == StripUpper(typed)
        sid == QUIZ_STATE[channel_id]
        state == heap[sid]
        question_idx == question_number - 1
    IN  IF choice \notin ValidChoices
        THEN Reply("quiz_answer", "InvalidChoice")
        ELSE IF sid = NoRef
        THEN Reply("quiz_answer", "NoActiveSession")
        ELSE IF now >= state.end_time
        THEN Reply("quiz_answer", "SessionEnded")
        ELSE IF question_idx < 0 \/ question_idx >= Len(state.questions)
        THEN Reply("quiz_answer", "InvalidQuestionIndex")
        ELSE Recorded("quiz_answer", sid, Str(user), question_idx, choice)

----------------------------------------------------------------------------
(* Ending a quiz: /quiz_end, auto_end_quiz and display_quiz_results *)

\* Faulty variant (sensitivity of C3): no presence check before defer().
quiz_end_NoPresenceCheck(channel_id) ==
    /\ CountKind("manual") < limits.ends
    /\ tasks' = Spawn(tasks, NewTask("manual", channel_id, "deferred"))
    /\ result' = Result("quiz_end", "Deferred")
    /\ UNCHANGED <<gen, probe, limits, now, QUIZ_STATE, heap, allocated, buttons,
                   reported, removed, accepted>>

\* From the presence check to the suspension at defer().
quiz_end(channel_id) ==
    IF QUIZ_STATE[channel_id] = NoRef
    THEN Reply("quiz_end", "NoActiveSession")
    ELSE /\ CountKind("manual") < limits.ends
         /\ tasks' = Spawn(tasks, NewTask("manual", channel_id, "deferred"))
         /\ result' = Result("quiz_end", "Deferred")
         /\ UNCHANGED <<gen, probe, limits, now, QUIZ_STATE, heap, allocated, buttons,
                        reported, removed, accepted>>

\* A coroutine returns: the dicts only it referenced are freed.
Return(t, op, kind) ==
    LET T2 == Finish(tasks, t)
    IN  /\ tasks' = T2
        /\ heap' = Collect(heap, QUIZ_STATE, T2)
        /\ accepted' = CollectHistory(accepted, QUIZ_STATE, T2)
        /\ result' = Result(op, kind)
        /\ UNCHANGED <<gen, probe, limits, now, QUIZ_STATE, allocated, buttons,
                       reported, removed>>

\* The answers the loops over user_answers.items() and answers.items() visit.
Answers(user_answers) ==
    UNION {{<<user_answers[i][1], user_answers[i][2][j][1],
              user_answers[i][2][j][2]>> :
               j \in 1..Len(user_answers[i][2])} :
           i \in 1..Len(user_answers)}

\* display_quiz_results from its entry to the suspension at the send of the
\* leaderboard; op names the caller.
display_quiz_results(t, op) ==
    LET sid == QUIZ_STATE[t.channel]
        state == heap[sid]
        questions == state.questions
        user_answers == state.user_answers
        scores == Scores(user_answers, questions)
        scores_sorted == SortedByScore(scores)
    IN  IF sid = NoRef
        THEN Return(t, op, "NoQuizState")
        ELSE /\ tasks' = Spawn(Finish(tasks, t),
                    [t EXCEPT !.pc = "results", !.state = sid, !.idx = 0,
                              !.scores = IF limits.history
                                         THEN scores_sorted ELSE <<>>,
                              !.scored = IF limits.history
                                         THEN Answers(user_answers)
                                         ELSE {}])
             /\ reported' = [reported EXCEPT ![sid] = @ + 1]
             /\ result' = [Result(op, "Leaderboard") EXCEPT
                               !.session = sid,
                               !.scores_sorted = scores_sorted,
                               !.description =
                                   IF scores_sorted # <<>> THEN ""
                                   ELSE "No one submitted answers!"]
             /\ UNCHANGED <<gen, probe, limits, now, QUIZ_STATE, heap, allocated, buttons,
                            removed, accepted>>

\* Faulty variant (sensitivity of C12): the woken task returns as if the
\* quiz were gone, whatever it finds.
auto_end_quiz_GivesUp(t) ==
    /\ t \in TaskSet
    /\ t.kind = "auto"
    /\ t.pc = "sleep"
    /\ now >= t.wake
    /\ Return(t, "auto_end_quiz", "QuizGone")

\* The sleep of auto_end_quiz is over.
auto_end_quiz(t) ==
    /\ t \in TaskSet
    /\ t.kind = "auto"
    /\ t.pc = "sleep"
    /\ now >= t.wake
    /\ IF QUIZ_STATE[t.channel] = NoRef
       THEN Return(t, "auto_end_quiz", "QuizGone")
       ELSE display_quiz_results(t, "auto_end_quiz")

\* /quiz_end resumes after defer().
quiz_end_deferred(t) ==
    /\ t \in TaskSet
    /\ t.kind = "manual"
    /\ t.pc = "deferred"
    /\ display_quiz_results(t, "quiz_end")

Caller(t) == IF t.kind = "auto" THEN "auto_end_quiz" ELSE "quiz_end"

\* One turn of the loop over the questions, to the suspension at its send.
display_question(t) ==
    /\ t \in TaskSet
    /\ t.pc = "results"
    /\ LET questions == heap[t.state].questions
           user_answers == heap[t.state].user_answers
       IN  /\ t.idx < Len(questions)
           /\ LET correct == StripUpper(questions[t.idx + 1].answer)
                  correct_users ==
                      UsersWhere(user_answers, t.idx, correct, TRUE)
                  incorrect_users ==
                      UsersWhere(user_answers, t.idx, correct, FALSE)
              IN  /\ tasks' = Spawn(Finish(tasks, t),
                         [t EXCEPT !.idx = t.idx + 1,
                                   !.listed =
                                       IF limits.history
                                       THEN @ \cup
                                            {<<correct_users[i], t.idx>> :
                                               i \in 1..Len(correct_users)}
                                       ELSE {}])
                  /\ result' = [Result(Caller(t), "QuestionResult") EXCEPT
                         !.session = t.state,
                         !.correct_users = correct_users,
                         !.incorrect_users = incorrect_users]
    /\ UNCHANGED <<gen, probe, limits, now, QUIZ_STATE, heap, allocated, buttons,
                   reported, removed, accepted>>

\* Faulty variant (sensitivity of C39): the cleanup clears QUIZ_STATE.
display_cleanup_AllChannels(t) ==
    /\ t \in TaskSet
    /\ t.pc = "results"
    /\ t.idx = Len(heap[t.state].questions)
    /\ LET Q2 == [c \in Channels |-> NoRef]
           T2 == Finish(tasks, t)
           popped == QUIZ_STATE[t.channel]
       IN  /\ QUIZ_STATE' = Q2
           /\ tasks' = T2
           /\ heap' = Collect(heap, Q2, T2)
           /\ accepted' = CollectHistory(accepted, Q2, T2)
           /\ removed' = IF popped = NoRef THEN removed
                         ELSE [removed EXCEPT ![popped] =
                                  Append(@, <<Caller(t), t.channel>>)]
    /\ result' = Result(Caller(t), "Ended")
    /\ UNCHANGED <<gen, probe, limits, now, allocated, buttons, reported>>

\* After the loop: the closing message is sent and, when the send returns,
\* QUIZ_STATE.pop(channel_id, None) runs and the coroutine returns.
display_cleanup(t) ==
    /\ t \in TaskSet
    /\ t.pc = "results"
    /\ t.idx = Len(heap[t.state].questions)
    /\ LET Q2 == [QUIZ_STATE EXCEPT ![t.channel] = NoRef]
           T2 == Finish(tasks, t)
           popped == QUIZ_STATE[t.channel]
       IN  /\ QUIZ_STATE' = Q2
           /\ tasks' = T2
           /\ heap' = Collect(heap, Q2, T2)
           /\ accepted' = CollectHistory(accepted, Q2, T2)
           /\ removed' = IF popped = NoRef THEN removed
                         ELSE [removed EXCEPT ![popped] =
                                  Append(@, <<Caller(t), t.channel>>)]
    /\ result' = Result(Caller(t), "Ended")
    /\ UNCHANGED <<gen, probe, limits, now, allocated, buttons, reported>>

----------------------------------------------------------------------------
(* generate_quiz *)

MaxTarget == 3

MaxBatch == 2

max_regeneration_attempts == 3

Options == [i \in 1..NumOptions |-> <<"o">> \o Str(i)]

\* Items the question source may put into a reply.
Item(q, answer, topic) ==
    [q |-> q, options |-> Options, answer |-> answer, explain |-> <<"x">>,
     topic |-> topic]

FuelPump == Item(<<"F", "u", "e", "l", " ", "p", "u", "m", "p", "?">>, <<"A">>, <<"f", "u", "e", "l">>)

\* The same topic after lower() and strip(), nearly the same text.
FuelPumpAgain == Item(<<"f", "u", "e", "l", " ", "p", "u", "m", "p", "!">>, <<" ", "b">>, <<"F", "u", "e", "l", " ">>)

\* No topic field: the topic is extracted from the text.
GearSpeed ==
    [q |-> <<"G", "e", "a", "r", " ", "d", "o", "w", "n", " ", "s", "p", "e", "e", "d">>, options |-> Options, answer |-> <<"C">>,
     explain |-> <<"x">>]

\* Another topic and a text below the ratio threshold, but two of four
\* keywords shared with GearSpeed.
GearLimit == Item(<<"g", "e", "a", "r", " ", "d", "o", "w", "n", " ", "l", "i", "m", "i", "t">>, <<"D">>, <<"l", "i", "m", "i", "t", "s">>)

\* A text without content words.
SwitchOn == Item(<<"I", "s", " ", "i", "t", " ", "o", "n", "?">>, <<"A">>, <<"s", "w", "i", "t", "c", "h">>)

\* Another topic, no keywords, nearly the text of SwitchOn.
LampOn == Item(<<"i", "s", " ", "i", "t", " ", "o", "n", "!">>, <<"B">>, <<"l", "a", "m", "p">>)

\* Invalid items: no explanation; a letter outside A-D; three options.
NoExplain ==
    [q |-> <<"F", "l", "a", "p", " ", "l", "i", "m", "i", "t">>, options |-> Options, answer |-> <<"A">>,
     topic |-> <<"f", "l", "a", "p", "s">>]

BadLetter == Item(<<"T", "r", "i", "m">>, <<"e">>, <<"t", "r", "i", "m">>)

ThreeOptions ==
    [Item(<<"B", "r", "a", "k", "e">>, <<"A">>, <<"b", "r", "a", "k", "e">>) EXCEPT
        !.options = SubSeq(Options, 1, NumOptions - 1)]

GenItems == {FuelPump, FuelPumpAgain, GearSpeed, GearLimit, SwitchOn, NoExplain}

\* A reply of the question source: text that is no JSON, JSON that is no
\* array, or a JSON array of items.
Replies ==
    {[kind |-> "text", items |-> <<>>], [kind |-> "scalar", items |-> <<>>]}
    \cup {[kind |-> "array", items |-> items] :
            items \in UNION {[1..k -> GenItems] : k \in 0..MaxBatch}}

Targets == 1..MaxTarget

RequiredKeys == {"q", "options", "answer", "explain"}

\* The validation of one item; a valid item gets its answer normalised.
IsValidItem(item) ==
    /\ RequiredKeys \subseteq DOMAIN item
    /\ Len(item.options) = NumOptions
    /\ StripUpper(item.answer) \in ValidChoices

RECURSIVE ValidItems(_)
ValidItems(data) ==
    IF data = <<>> THEN <<>>
    ELSE LET item == Head(data)
         IN  (IF IsValidItem(item)
              THEN <<[item EXCEPT !.answer = StripUpper(item.answer)]>>
              ELSE <<>>) \o ValidItems(Tail(data))

\* Faulty variant (sensitivity of C16): a regenerated item is compared with
\* the most recently accepted question only.
RECURSIVE AddNonDuplicatesLastOnly(_, _, _, _)
AddNonDuplicatesLastOnly(unique, topics, regen_valid, num_questions) ==
    IF regen_valid = <<>> THEN <<unique, topics>>
    ELSE LET q == Head(regen_valid)
             topic == extract_topic_from_question(q)
             last == Len(unique)
             is_duplicate ==
                 /\ last > 0
                 /\ are_questions_similar(q, unique[last], topic, topics[last])
         IN  IF is_duplicate
             THEN AddNonDuplicatesLastOnly(unique, topics, Tail(regen_valid),
                                           num_questions)
             ELSE IF Len(unique) + 1 >= num_questions
             THEN <<Append(unique, q), Append(topics, topic)>>
             ELSE AddNonDuplicatesLastOnly(Append(unique, q),
                      Append(topics, topic), Tail(regen_valid), num_questions)

\* The loop over regen_valid: an item similar to none of the accumulated
\* questions is appended, and the loop stops once the target is reached.
RECURSIVE AddNonDuplicates(_, _, _, _)
AddNonDuplicates(unique, topics, regen_valid, num_questions) ==
    IF regen_valid = <<>> THEN <<unique, topics>>
    ELSE LET q == Head(regen_valid)
             topic == extract_topic_from_question(q)
         IN  IF IsDuplicate(q, topic, unique, topics)
             THEN AddNonDuplicates(unique, topics, Tail(regen_valid),
                                   num_questions)
             ELSE IF Len(unique) + 1 >= num_questions
             THEN <<Append(unique, q), Append(topics, topic)>>
             ELSE AddNonDuplicates(Append(unique, q), Append(topics, topic),
                                   Tail(regen_valid), num_questions)

\* Items that are not what the prompt asks for: a JSON number among the
\* items; a number as the answer; a number as the topic. The field json
\* marks a value that is no JSON object, the field numeric names the keys of
\* an object whose values are numbers.
NotADict == [json |-> "number"]

NumericAnswer ==
    [q |-> <<"R", "u", "d", "d", "e", "r">>, options |-> Options,
     answer |-> <<"1">>, explain |-> <<"x">>, numeric |-> {"answer"}]

NumericTopic ==
    [q |-> <<"A", "i", "l", "e", "r", "o", "n">>, options |-> Options,
     answer |-> <<"A">>, explain |-> <<"x">>, topic |-> <<"9">>,
     numeric |-> {"topic"}]

IsDict(item) == "json" \notin DOMAIN item

IsNumber(item, key) ==
    /\ "numeric" \in DOMAIN item
    /\ key \in item.numeric

\* The exception the validation loop raises on a parsed array: TypeError at
\* `k in item` for an item that is a number, AttributeError at
\* item["answer"].strip() for an answer that is a number; "none" if the loop
\* completes.
RECURSIVE ValidationRaises(_)
ValidationRaises(data) ==
    IF data = <<>> THEN "none"
    ELSE LET item == Head(data)
         IN  IF ~IsDict(item) THEN "TypeError"
             ELSE IF /\ RequiredKeys \subseteq DOMAIN item
                     /\ Len(item.options) = NumOptions
                     /\ IsNumber(item, "answer")
             THEN "AttributeError"
             ELSE ValidationRaises(Tail(data))

\* The exception raised up to the end of validation: JSONDecodeError by
\* json.loads on text that is no JSON, TypeError by `for item in data` on
\* JSON that is no array, or what the validation loop raises.
ParseRaises(reply) ==
    IF reply.kind = "text" THEN "JSONDecodeError"
    ELSE IF reply.kind = "scalar" THEN "TypeError"
    ELSE ValidationRaises(reply.items)

\* extract_topic_from_question raises AttributeError at .lower() on a topic
\* that is a number.
TopicRaises(q) == IsNumber(q, "topic")

\* The questions before the first one whose topic cannot be extracted.
RECURSIVE Reached(_)
Reached(questions) ==
    IF questions = <<>> \/ TopicRaises(Head(questions)) THEN <<>>
    ELSE <<Head(questions)>> \o Reached(Tail(questions))

\* The except clauses: of the try statement around the whole body, and of
\* the one inside the regeneration loop.
OuterHandlersJsonOnly == {"JSONDecodeError"}
OuterHandlers == {"JSONDecodeError", "Exception"}

\* Faulty variant (sensitivity of C35): the loop has no handler of its own.
InnerHandlersNone == {}
InnerHandlers == {"JSONDecodeError", "Exception"}

\* JSONDecodeError, TypeError and AttributeError are subclasses of Exception.
Catches(handlers, raised) ==
    \E class \in handlers : class = "Exception" \/ class = raised

Idle ==
    UNCHANGED <<now, QUIZ_STATE, heap, allocated, tasks, buttons, result,
                reported, removed, accepted, limits>>

\* Faulty variant (sensitivity of C14): all accumulated questions are
\* returned.
GenReturnAll(unique, topics) ==
    gen' = [gen EXCEPT !.pc = "done",
               !.unique_questions = unique, !.used_topics = topics,
               !.returned = IF Len(unique) > 0 THEN "list" ELSE "None",
               !.value = unique]

\* Faulty variant (sensitivity of C15): a partial set is a failure.
GenReturnNoneIfShort(unique, topics) ==
    gen' = [gen EXCEPT !.pc = "done",
               !.unique_questions = unique, !.used_topics = topics,
               !.returned = IF Len(unique) >= gen.num_questions
                            THEN "list" ELSE "None",
               !.value = IF Len(unique) >= gen.num_questions
                         THEN SubSeq(unique, 1, gen.num_questions)
                         ELSE <<>>]

\* After the loop: the first num_questions questions, or the partial set, or
\* None.
GenReturn(unique, topics) ==
    gen' = [gen EXCEPT !.pc = "done",
               !.unique_questions = unique, !.used_topics = topics,
               !.returned = IF Len(unique) > 0 THEN "list" ELSE "None",
               !.value = IF Len(unique) >= gen.num_questions
                         THEN SubSeq(unique, 1, gen.num_questions)
                         ELSE unique]

\* Faulty variant (sensitivity of C13): one round too many.
GenLoopOneMore(unique, topics) ==
    IF Len(unique) < gen.num_questions
          /\ gen.attempt <= max_regeneration_attempts
    THEN gen' = [gen EXCEPT !.pc = "regen", !.attempt = @ + 1,
                    !.calls = @ + 1,
                    !.unique_questions = unique, !.used_topics = topics]
    ELSE GenReturn(unique, topics)

\* Faulty variant (sensitivity of C24): the loop gives up after its first
\* round.
GenLoopGivesUp(unique, topics) ==
    IF Len(unique) < gen.num_questions /\ gen.attempt = 0
    THEN gen' = [gen EXCEPT !.pc = "regen", !.attempt = @ + 1,
                    !.calls = @ + 1,
                    !.unique_questions = unique, !.used_topics = topics]
    ELSE GenReturn(unique, topics)

\* The test of the while loop: another request to the question source, at
\* which the coroutine waits for the reply, or the end of the loop.
GenLoop(unique, topics) ==
    IF Len(unique) < gen.num_questions
          /\ gen.attempt < max_regeneration_attempts
    THEN gen' = [gen EXCEPT !.pc = "regen", !.attempt = @ + 1,
                    !.calls = @ + 1,
                    !.unique_questions = unique, !.used_topics = topics]
    ELSE GenReturn(unique, topics)

\* The failure return of generate_quiz.
GenFail == gen' = [gen EXCEPT !.pc = "done", !.returned = "None"]

\* An exception leaves generate_quiz.
GenRaise == gen' = [gen EXCEPT !.pc = "done", !.returned = "raised"]

\* An exception raised in the body of the outer try statement: a handler
\* returns None, or the exception leaves the function.
GenExcept(raised) ==
    IF Catches(OuterHandlers, raised)
    THEN GenFail
    ELSE GenRaise

\* An exception raised inside the loop: its handler goes on with the next
\* round, keeping what was added before the exception.
GenContinue(raised, unique, topics) ==
    IF Catches(InnerHandlers, raised)
    THEN GenLoop(unique, topics)
    ELSE GenExcept(raised)

\* generate_quiz is called and sends its first request.
generate_quiz(num_questions) ==
    /\ gen.pc = "idle"
    /\ gen' = [gen EXCEPT !.pc = "first", !.num_questions = num_questions,
                  !.calls = 1]
    /\ UNCHANGED probe
    /\ Idle

\* The reply to the first request: parsed, validated, deduplicated.
generate_quiz_reply(reply) ==
    /\ gen.pc = "first"
    /\ LET raised == ParseRaises(reply)
           valid_questions == ValidItems(reply.items)
           deduplicated == deduplicate_questions(valid_questions)
       IN  IF raised # "none" THEN GenExcept(raised)
           ELSE IF valid_questions = <<>> THEN GenFail
           ELSE IF Reached(valid_questions) # valid_questions
           THEN GenExcept("AttributeError")
           ELSE GenLoop(deduplicated[1], deduplicated[2])
    /\ UNCHANGED probe
    /\ Idle

\* The reply to a regeneration request: an exception ends the round, with
\* the questions added before it; the loop over the valid items ends at the
\* item that completes the set.
generate_quiz_regen_reply(reply) ==
    /\ gen.pc = "regen"
    /\ LET raised == ParseRaises(reply)
           regen_valid == ValidItems(reply.items)
           added == AddNonDuplicates(gen.unique_questions, gen.used_topics,
                                     Reached(regen_valid), gen.num_questions)
       IN  IF raised # "none"
           THEN GenContinue(raised, gen.unique_questions, gen.used_topics)
           ELSE IF /\ Reached(regen_valid) # regen_valid
                   /\ Len(added[1]) < gen.num_questions
           THEN GenContinue("AttributeError", added[1], added[2])
           ELSE GenLoop(added[1], added[2])
    /\ UNCHANGED probe
    /\ Idle

GenInit == Init /\ limits = Full

GenNext ==
    \/ \E num_questions \in Targets : generate_quiz(num_questions)
    \/ \E reply \in Replies : generate_quiz_reply(reply)
    \/ \E reply \in Replies : generate_quiz_regen_reply(reply)

GenSpec == GenInit /\ [][GenNext]_vars

\* Replies that are not an array of well-formed items, next to some that
\* are: the items a reply may hold, with the malformed ones.
FaultItems == {FuelPump, GearSpeed, NotADict, NumericAnswer, NumericTopic}

FaultReplies ==
    {[kind |-> "text", items |-> <<>>], [kind |-> "scalar", items |-> <<>>]}
    \cup {[kind |-> "array", items |-> items] :
            items \in UNION {[1..k -> FaultItems] : k \in 0..MaxBatch}}

\* The question source of one behaviour: what it replies to the first
\* request and to the regeneration requests.
Sources ==
    {[fn |-> "source", reply |-> reply, regen_reply |-> regen_reply] :
        reply \in FaultReplies, regen_reply \in FaultReplies}

FaultInit ==
    /\ limits = Full
    /\ gen = GenIdle
    /\ probe \in Sources
    /\ NoSessions

FaultNext ==
    \/ \E num_questions \in Targets : generate_quiz(num_questions)
    \/ generate_quiz_reply(probe.reply)
    \/ generate_quiz_regen_reply(probe.regen_reply)

FaultSpec == FaultInit /\ [][FaultNext]_vars

----------------------------------------------------------------------------
(* The similarity functions on their own *)

MaxInput == 3

\* The topic of GearLimit, a text that shares one keyword of three with it.
FlapLimit ==
    Item(<<"F", "l", "a", "p", " ", "l", "i", "m", "i", "t">>, <<"A">>,
         <<"l", "i", "m", "i", "t", "s">>)

\* A dict without the key "q".
NoText == [topic |-> <<"t", "r", "i", "m">>]

Questions ==
    {FuelPump, FuelPumpAgain, GearSpeed, GearLimit, FlapLimit, SwitchOn,
     LampOn}

QuestionLists == UNION {[1..k -> Questions] : k \in 0..MaxInput}

\* The topics passed with a question: its own, or the tag of a question
\* without content words.
TopicsFor(q) == {extract_topic_from_question(q), Unknown}

Pairs ==
    UNION {{[fn |-> "pair", q1 |-> q1, q2 |-> q2, topic1 |-> topic1,
             topic2 |-> topic2] :
               topic1 \in TopicsFor(q1), topic2 \in TopicsFor(q2)} :
           q1 \in Questions \cup {NoText}, q2 \in Questions \cup {NoText}}

Lists == {[fn |-> "list", questions |-> questions] :
             questions \in QuestionLists}

\* Two pairs of options of the same text; the second one is correct.
TwinOptions ==
    [q |-> <<"T", "w", "i", "n", "s">>,
     options |-> << <<"o", "n">>, <<"o", "n">>, <<"o", "f", "f">>,
                    <<"o", "f", "f">> >>,
     answer |-> <<"B">>, explain |-> <<"x">>, page |-> 7]

\* Questions with both optional fields, with one of them and with neither.
ShuffleQuestions ==
    {PoolQuestion(1), PoolQuestion(2), FuelPumpAgain, GearSpeed, TwinOptions}

\* Every order random.shuffle can produce.
ShuffleOrders ==
    {perm \in [1..NumOptions -> 1..NumOptions] :
        \A i, j \in 1..NumOptions : perm[i] = perm[j] => i = j}

Shuffles ==
    {[fn |-> "question", question |-> question, perm |-> perm] :
        question \in ShuffleQuestions, perm \in ShuffleOrders}

MaxWords == 3

\* Words a question text is made of: content words, one with a capital, a
\* word of three letters, a stopword of five, a token with a digit.
Vocabulary ==
    {<<"g", "e", "a", "r">>, <<"F", "l", "a", "p", "s">>,
     <<"t", "r", "i", "m">>, <<"f", "a", "n">>,
     <<"w", "h", "i", "c", "h">>, <<"f", "l", "a", "p", "2">>}

WordLists == UNION {[1..k -> Vocabulary] : k \in 0..MaxWords}

\* The words separated by blanks, with a question mark at the end.
RECURSIVE JoinWords(_)
JoinWords(words) ==
    IF words = <<>> THEN <<"?">>
    ELSE IF Len(words) = 1 THEN Head(words) \o <<"?">>
    ELSE Head(words) \o <<" ">> \o JoinWords(Tail(words))

\* Topic tags: an empty one, blanks only, one to lower and to strip.
TopicTags ==
    {<<>>, <<" ", " ">>, <<" ", "F", "u", "e", "l", "-", "P", "u", "m", "p", " ">>}

\* Questions without a topic field and with each of the tags.
Texts ==
    {[fn |-> "text", words |-> words, question |-> [q |-> JoinWords(words)]] :
        words \in WordLists}
    \cup {[fn |-> "text", words |-> words,
            question |-> [q |-> JoinWords(words), topic |-> topic]] :
              words \in WordLists, topic \in TopicTags}

PureInit ==
    /\ limits = Full
    /\ gen = GenIdle
    /\ probe \in Lists \cup Pairs \cup Shuffles \cup Texts
    /\ NoSessions

\* deduplicate_questions is applied to a list; round counts the
\* applications, input is the list it was applied to.
Deduplicated(questions, round) ==
    LET returned == deduplicate_questions(questions)
    IN  [fn |-> "deduplicate_questions", round |-> round,
         input |-> questions, unique |-> returned[1],
         topics |-> returned[2]]

deduplicate ==
    /\ probe.fn = "list"
    /\ probe' = Deduplicated(probe.questions, 1)
    /\ UNCHANGED gen
    /\ Idle

\* The unique questions are deduplicated once more; the topics of the first
\* application are kept for comparison.
deduplicate_again ==
    /\ probe.fn = "deduplicate_questions"
    /\ probe.round = 1
    /\ probe' = [fn |-> "deduplicate_again",
                 first |-> probe,
                 second |-> Deduplicated(probe.unique, 2)]
    /\ UNCHANGED gen
    /\ Idle

compare ==
    /\ probe.fn = "pair"
    /\ probe' = [fn |-> "are_questions_similar", q1 |-> probe.q1,
                 q2 |-> probe.q2, topic1 |-> probe.topic1,
                 topic2 |-> probe.topic2,
                 value |-> are_questions_similar(probe.q1, probe.q2,
                               probe.topic1, probe.topic2)]
    /\ UNCHANGED gen
    /\ Idle

shuffle ==
    /\ probe.fn = "question"
    /\ probe' = [fn |-> "shuffle_quiz_options",
                 question |-> probe.question, perm |-> probe.perm,
                 argument |-> Argument(probe.question, probe.perm),
                 returned |-> shuffle_quiz_options(probe.question,
                                                   probe.perm)]
    /\ UNCHANGED gen
    /\ Idle

extract_topic ==
    /\ probe.fn = "text"
    /\ probe' = [fn |-> "extract_topic_from_question",
                 words |-> probe.words, question |-> probe.question,
                 value |-> extract_topic_from_question(probe.question)]
    /\ UNCHANGED gen
    /\ Idle

PureNext ==
    deduplicate \/ deduplicate_again \/ compare \/ shuffle \/ extract_topic

PureSpec == PureInit /\ [][PureNext]_vars

----------------------------------------------------------------------------
(* /quiz_score *)

SecondsPerMinute == 60

\* The seconds of the minute now that have passed when quiz_score reads the
\* clock; end_time and now count minutes.
ClockSeconds == {0, 30}

\* int(x / y) of a number of seconds: the quotient, cut towards zero.
IntDiv(x, y) == IF x >= 0 THEN x \div y ELSE -((-x) \div y)

Max0(x) == IF x > 0 THEN x ELSE 0

RECURSIVE InsertAscending(_, _)
InsertAscending(sorted, x) ==
    IF sorted = <<>> THEN <<x>>
    ELSE IF x < Head(sorted) THEN <<x>> \o sorted
    ELSE <<Head(sorted)>> \o InsertAscending(Tail(sorted), x)

\* list.sort() of a list of integers.
RECURSIVE Sort(_)
Sort(list) ==
    IF list = <<>> THEN <<>>
    ELSE InsertAscending(Sort(Tail(list)), Head(list))

\* The numbers the reply of quiz_score shows.
Progress(state, user_id, seconds) ==
    LET answers == IF HasKey(state.user_answers, user_id)
                   THEN Get(state.user_answers, user_id) ELSE <<>>
        time_remaining ==
            (state.end_time - now) * SecondsPerMinute - seconds
    IN  [answered_count |-> Len(answers),
         total_q |-> Len(state.questions),
         answered_questions |->
             Sort([i \in 1..Len(answers) |-> answers[i][1] + 1]),
         minutes_remaining |->
             Max0(IntDiv(time_remaining, SecondsPerMinute)),
         seconds_remaining |-> Max0(time_remaining % SecondsPerMinute)]

\* Faulty variant (sensitivity of C25): the participant's dict is created
\* when it is missing.
quiz_score_CreatesEntry(channel_id, user, seconds) ==
    LET sid == QUIZ_STATE[channel_id]
        state == heap[sid]
        user_id == Str(user)
    IN  IF sid = NoRef
        THEN Reply("quiz_score", "NoActiveSession")
        ELSE /\ result' = [Result("quiz_score", "Progress") EXCEPT
                              !.session = sid,
                              !.progress = Progress(state, user_id, seconds)]
             /\ heap' = [heap EXCEPT ![sid].user_answers =
                            IF HasKey(@, user_id) THEN @
                            ELSE SetItem(@, user_id, <<>>)]
             /\ UNCHANGED <<gen, probe, limits, now, QUIZ_STATE, allocated,
                            tasks, buttons, reported, removed, accepted>>

quiz_score(channel_id, user, seconds) ==
    LET sid == QUIZ_STATE[channel_id]
        state == heap[sid]
        user_id == Str(user)
    IN  IF sid = NoRef
        THEN Reply("quiz_score", "NoActiveSession")
        ELSE /\ result' = [Result("quiz_score", "Progress") EXCEPT
                              !.session = sid,
                              !.progress = Progress(state, user_id, seconds)]
             /\ UNCHANGED <<gen, probe, limits, now, QUIZ_STATE, heap,
                            allocated, tasks, buttons, reported, removed,
                            accepted>>

----------------------------------------------------------------------------
(* Specification *)

Next ==
    \/ Tick
    \/ \E c \in Channels, u \in Initiators, n \in QuestionCounts,
          d \in Durations : quiz_start(c, u, n, d)
    \/ \E t \in TaskSet : quiz_start_generated(t)
    \/ \E c \in Channels, u \in Users, i \in 0..(limits.pool - 1),
          ch \in ClickedChoices : callback(c, u, i, ch)
    \/ \E c \in Channels, u \in Users, n \in QuestionNumbers,
          ty \in TypedChoices : quiz_answer(c, u, n, ty)
    \/ \E c \in Channels : quiz_end(c)
    \/ \E t \in TaskSet : auto_end_quiz(t)
    \/ \E t \in TaskSet : quiz_end_deferred(t)
    \/ \E t \in TaskSet : display_question(t)
    \/ \E t \in TaskSet : display_cleanup(t)

Spec == Init /\ [][Next]_vars

\* The handlers of Spec and /quiz_score, in the profile with two
\* participants and two questions.
ScoreInit == Init /\ limits = Full

ScoreNext ==
    \/ Next
    \/ \E c \in Channels, u \in Users, seconds \in ClockSeconds :
          quiz_score(c, u, seconds)

ScoreSpec == ScoreInit /\ [][ScoreNext]_vars

\* The same handlers on two channels.
ChannelsInit ==
    /\ limits = TwoChannels
    /\ gen = GenIdle
    /\ probe = NoProbe
    /\ NoSessions

ChannelsSpec == ChannelsInit /\ [][ScoreNext]_vars

\* The handlers of Spec in the profile that keeps, for every report, the
\* answers its leaderboard was computed from.
ReportInit ==
    /\ limits = Reporting
    /\ gen = GenIdle
    /\ probe = NoProbe
    /\ NoSessions

ReportSpec == ReportInit /\ [][Next]_vars

\* Starting sessions and submitting answers only, in the profile with two
\* participants and two questions.
SubmitInit == Init /\ limits = Full

SubmitNext ==
    \/ \E c \in Channels, u \in Initiators, n \in QuestionCounts,
          d \in Durations : quiz_start(c, u, n, d)
    \/ \E t \in TaskSet : quiz_start_generated(t)
    \/ \E c \in Channels, u \in Users, i \in 0..(limits.pool - 1),
          ch \in ClickedChoices : callback(c, u, i, ch)
    \/ \E c \in Channels, u \in Users, n \in QuestionNumbers,
          ty \in TypedChoices : quiz_answer(c, u, n, ty)

SubmitSpec == SubmitInit /\ [][SubmitNext]_vars

\* /quiz_start calls generate_quiz with the requested number of questions.
quiz_start_generate(t) ==
    /\ t \in TaskSet
    /\ t.kind = "start"
    /\ generate_quiz(t.num_questions)

\* What the caller of generate_quiz receives: a list, or None, which the
\* test `not quiz_questions` treats like the empty list.
Returned == IF gen.returned = "None" THEN <<>> ELSE gen.value

\* generate_quiz has returned to /quiz_start, which goes on to its end.
quiz_start_resumed(t) ==
    /\ t \in TaskSet
    /\ t.kind = "start"
    /\ gen.pc = "done"
    /\ gen.num_questions = t.num_questions
    /\ quiz_start_returned(t, Returned)
    /\ gen' = GenIdle

\* /quiz_start with the generator it calls, in the profiles with one
\* session: the requests, the replies of the question source, the session.
StartInit == Init /\ limits \in {Full, Wide}

StartNext ==
    \/ \E c \in Channels, u \in Initiators, n \in QuestionCounts,
          d \in Durations : quiz_start(c, u, n, d)
    \/ \E t \in TaskSet : quiz_start_generate(t)
    \/ \E reply \in Replies : generate_quiz_reply(reply)
    \/ \E reply \in Replies : generate_quiz_regen_reply(reply)
    \/ \E t \in TaskSet : quiz_start_resumed(t)

StartSpec == StartInit /\ [][StartNext]_vars

\* The event loop resumes every coroutine that is ready: a task whose sleep
\* is over, a coroutine whose send() has returned.
Fairness ==
    /\ WF_vars(\E t \in TaskSet : auto_end_quiz(t))
    /\ WF_vars(\E t \in TaskSet : display_question(t))
    /\ WF_vars(\E t \in TaskSet : display_cleanup(t))

\* The bounds under which the fair behaviours are explored.
Quick ==
    [users |-> 1, pool |-> 1, sessions |-> RaceSessions, starts |-> 1,
     ends |-> 1, typed |-> { <<"e">> }, history |-> FALSE,
     channels |-> NumChannels]

LiveInit ==
    /\ limits = Quick
    /\ gen = GenIdle
    /\ probe = NoProbe
    /\ now = 0
    /\ QUIZ_STATE = [c \in Channels |-> NoRef]
    /\ heap = [s \in Sids |-> FreeCell]
    /\ allocated = 0
    /\ tasks = EmptyBag
    /\ buttons = [c \in Channels |-> {}]
    /\ result = Result("none", "none")
    /\ reported = [s \in Sids |-> 0]
    /\ removed = [s \in Sids |-> <<>>]
    /\ accepted = [s \in Sids |-> NoHistory]

LiveSpec == LiveInit /\ [][Next]_vars /\ Fairness

\* The sessions that were removed from the channel.
EndedOn(channel_id) ==
    {s \in Sids : \E k \in 1..Len(removed[s]) :
                     removed[s][k][2] = channel_id}

\* A participant clicks a button of the channel: one posted for the session
\* that is running, or one left from a session that was removed (a view has
\* no timeout).  In the profile with one question per session every session
\* has posted the button of question 0.
click(channel_id, session) ==
    /\ \/ session = QUIZ_STATE[channel_id] /\ session # NoRef
       \/ session \in EndedOn(channel_id)
    /\ probe' = [fn |-> "click", channel |-> channel_id,
                 session |-> session, question_idx |-> 0]
    /\ UNCHANGED <<now, QUIZ_STATE, heap, allocated, tasks, buttons, result,
                   reported, removed, accepted, limits, gen>>

\* The callback of the button that was clicked.
clicked(user, choice) ==
    /\ probe.fn = "click"
    /\ callback(probe.channel, user, probe.question_idx, choice)

\* Sessions that follow one another on a channel, with the clicks on their
\* buttons, in the profile with one participant and one question.
RotationInit == LiveInit

RotationNext ==
    \/ Tick
    \/ \E c \in Channels, u \in Initiators, n \in QuestionCounts,
          d \in Durations : quiz_start(c, u, n, d)
    \/ \E t \in TaskSet : quiz_start_generated(t)
    \/ \E c \in Channels, session \in Sids : click(c, session)
    \/ \E u \in Users, ch \in ClickedChoices : clicked(u, ch)
    \/ \E c \in Channels : quiz_end(c)
    \/ \E t \in TaskSet : auto_end_quiz(t)
    \/ \E t \in TaskSet : quiz_end_deferred(t)
    \/ \E t \in TaskSet : display_question(t)
    \/ \E t \in TaskSet : display_cleanup(t)

RotationSpec == RotationInit /\ [][RotationNext]_vars

----------------------------------------------------------------------------
(* Properties of the session life cycle *)

Present(c) == QUIZ_STATE[c] # NoRef

Session(c) == heap[QUIZ_STATE[c]]

Range(f) == {f[i] : i \in DOMAIN f}

\* C1: a channel gets a new Running session only from Absent: no step
\* replaces the session of a channel by another session.
C1_LiveSessionNeverReplaced ==
    [][\A c \in Channels :
          Present(c) => QUIZ_STATE'[c] \in {QUIZ_STATE[c], NoRef}]_vars

\* C2: the results of a session are reported at most once and the session
\* is removed at most once, whichever end calls overlap.
C2_ReportedAndRemovedOnce ==
    \A s \in Sids : reported[s] <= 1 /\ Len(removed[s]) <= 1

\* The steps in which an end call (manual, deferred manual, or the woken
\* auto-end task) looks the channel up.
EndLooksUp(c) ==
    \/ quiz_end(c)
    \/ \E t \in TaskSet :
          t.channel = c /\ (quiz_end_deferred(t) \/ auto_end_quiz(t))

AbsentIndications == {"NoActiveSession", "NoQuizState", "QuizGone"}

\* C3: an end call that finds the channel's session absent is a no-op: it
\* answers with an absent indication, sends no results and leaves the
\* channel-to-session map, the sessions and the report counts unchanged.
C3_EndOnAbsentIsNoOp ==
    [][\A c \in Channels :
          (~Present(c) /\ EndLooksUp(c)) =>
              /\ result'.kind \in AbsentIndications
              /\ result'.scores_sorted = <<>>
              /\ UNCHANGED <<QUIZ_STATE, heap, reported, removed>>]_vars

\* C3 witness: after a session was reported and removed once, a second
\* /quiz_end was answered with the absent indication.
C3_Witness ==
    /\ result.op = "quiz_end"
    /\ result.kind = "NoActiveSession"
    /\ \E s \in Sids : reported[s] = 1 /\ Len(removed[s]) = 1

\* C4: when the auto-end task of a session that was ended manually wakes,
\* it has no effect: it finds no quiz, reports nothing and returns, also
\* when a new session has been started on the channel in the meantime.
C4_WatcherOfEndedSessionIdle ==
    [][\A t \in TaskSet :
          (/\ t.kind = "auto"
           /\ <<"quiz_end", t.channel>> \in Range(removed[t.own])
           /\ auto_end_quiz(t))
              => /\ result'.kind = "QuizGone"
                 /\ UNCHANGED <<QUIZ_STATE, reported>>]_vars

----------------------------------------------------------------------------
(* Properties of answer submission *)

\* The letters the answers mapping holds for participant user_id and
\* question idx, one per stored item.
RECURSIVE ItemsOf(_, _)
ItemsOf(d, k) ==
    IF d = <<>> THEN <<>>
    ELSE (IF Head(d)[1] = k THEN <<Head(d)[2]>> ELSE <<>>) \o ItemsOf(Tail(d), k)

RECURSIVE Flatten(_)
Flatten(seqs) ==
    IF seqs = <<>> THEN <<>> ELSE Head(seqs) \o Flatten(Tail(seqs))

Held(state, user_id, idx) ==
    LET dicts == ItemsOf(state.user_answers, user_id)
    IN  Flatten([i \in 1..Len(dicts) |-> ItemsOf(dicts[i], idx)])

StoredKeys(state) ==
    UNION {{<<state.user_answers[i][1], state.user_answers[i][2][j][1]>> :
               j \in 1..Len(state.user_answers[i][2])} :
           i \in 1..Len(state.user_answers)}

\* C5: for every participant and question of a session the answers mapping
\* holds exactly one value, the letter of the most recent accepted
\* submission, and it holds nothing for a pair never submitted.
C5_LatestAnswerOnly ==
    \A s \in Sids :
        /\ \A x \in accepted[s].latest : Held(heap[s], x[1], x[2]) = <<x[3]>>
        /\ StoredKeys(heap[s]) = {<<x[1], x[2]>> : x \in accepted[s].latest}

\* C5 witness: an accepted submission has just replaced a different letter
\* the same participant had stored for the same question.
C5_Witness ==
    /\ result.kind = "Recorded"
    /\ result.replaced \in ValidChoices
    /\ \E x \in accepted[result.session].latest :
          /\ x[3] # result.replaced
          /\ Held(heap[result.session], x[1], x[2]) = <<x[3]>>
          /\ Len(heap[result.session].user_answers) > 1

Expired(c) == Present(c) /\ now >= Session(c).end_time

\* A session of channel c was removed by its auto-end task: its deadline
\* has passed.
RemovedAtDeadline(c) ==
    ~Present(c) /\ \E s \in Sids : <<"auto_end_quiz", c>> \in Range(removed[s])

Late(c) == Expired(c) \/ RemovedAtDeadline(c)

\* Some participant of channel c submits an answer, by button or by command.
Submits(c) ==
    \E u \in Users :
        \/ \E i \in buttons[c], ch \in ClickedChoices : callback(c, u, i, ch)
        \/ \E n \in QuestionNumbers, ty \in TypedChoices : quiz_answer(c, u, n, ty)

\* C6 as claimed: every submission made at or after the deadline fails with
\* SessionEnded and changes no answer, whether the session is still present
\* or its auto-end task has removed it.  (A step taken at or after the
\* deadline that does anything else is not a submission.)
C6_LateSubmissionIsSessionEnded ==
    [][\A c \in Channels :
          (/\ Late(c)
           /\ result'.op \in {"callback", "quiz_answer"}
           /\ ~(result'.kind = "SessionEnded" /\ UNCHANGED heap))
          => ~Submits(c)]_vars

\* The reply the code gives to a late /quiz_answer that typed ty, and to a
\* late button press (ty a valid letter).
LateReply(c, ty) ==
    IF StripUpper(ty) \notin ValidChoices THEN "InvalidChoice"
    ELSE IF Present(c) THEN "SessionEnded"
    ELSE "NoActiveSession"

\* C6 as amended: every submission made at or after the deadline fails and
\* changes no answer; it fails with SessionEnded while the session is still
\* present and with NoActiveSession once it has been removed, except that
\* /quiz_answer with a letter outside A-D fails with InvalidChoice.
C6_LateSubmissionFails ==
    [][\A c \in Channels :
          /\ (Late(c) /\ result'.op = "callback")
             => \A i \in buttons[c], ch \in ClickedChoices :
                   \/ /\ result'.kind = LateReply(c, ch)
                      /\ UNCHANGED <<QUIZ_STATE, heap>>
                   \/ \A u \in Users : ~callback(c, u, i, ch)
          /\ (Late(c) /\ result'.op = "quiz_answer")
             => \A n \in QuestionNumbers, ty \in TypedChoices :
                   \/ /\ result'.kind = LateReply(c, ty)
                      /\ UNCHANGED <<QUIZ_STATE, heap>>
                   \/ \A u \in Users : ~quiz_answer(c, u, n, ty)]_vars

\* C6 witness: a submission at the deadline was refused with SessionEnded
\* while the session, holding earlier answers, was still present.
C6_Witness ==
    /\ result.kind = "SessionEnded"
    /\ \E c \in Channels :
          /\ Expired(c)
          /\ now = Session(c).end_time
          /\ Session(c).user_answers # <<>>

SubmitFailures ==
    {"NoActiveSession", "SessionEnded", "InvalidQuestionIndex", "InvalidChoice"}

\* C7: a failed submission leaves the channel-to-session map and every
\* session unchanged: no participant entry is added, no answer changes.
\* (No step that answers with a failure and changes them is a submission.)
C7_FailedSubmissionChangesNothing ==
    [][\A c \in Channels :
          ~(/\ result'.kind \in SubmitFailures
            /\ ~UNCHANGED <<QUIZ_STATE, heap>>
            /\ Submits(c))]_vars

\* C7 witness: a submission was refused for its question index while the
\* session held the answers of some participants and no entry for another.
C7_Witness ==
    /\ result.kind = "InvalidQuestionIndex"
    /\ \E c \in Channels :
          /\ Present(c)
          /\ Session(c).user_answers # <<>>
          /\ Keys(Session(c).user_answers) # {Str(u) : u \in Users}

\* The outcome the claimed order of checks gives a submission of letter
\* choice for question question_idx on channel c.
ClaimedOutcome(c, question_idx, choice) ==
    IF ~Present(c) THEN "NoActiveSession"
    ELSE IF now >= Session(c).end_time THEN "SessionEnded"
    ELSE IF question_idx < 0 \/ question_idx >= Len(Session(c).questions)
    THEN "InvalidQuestionIndex"
    ELSE IF choice \notin ValidChoices THEN "InvalidChoice"
    ELSE "Recorded"

\* The outcome of a submission whose letter is checked before anything else.
ChoiceFirstOutcome(c, question_idx, choice) ==
    IF choice \notin ValidChoices THEN "InvalidChoice"
    ELSE ClaimedOutcome(c, question_idx, choice)

\* C8 as claimed: a submission reports the first failing check in the order
\* NoActiveSession, SessionEnded, InvalidQuestionIndex, InvalidChoice, and
\* succeeds only when all four pass; on a channel without a session it fails
\* with NoActiveSession for every letter.
C8_ChecksInClaimedOrder ==
    [][\A c \in Channels :
          /\ result'.op = "callback"
             => \A i \in buttons[c], ch \in ClickedChoices :
                   \/ result'.kind = ClaimedOutcome(c, i, ch)
                   \/ \A u \in Users : ~callback(c, u, i, ch)
          /\ result'.op = "quiz_answer"
             => \A n \in QuestionNumbers, ty \in TypedChoices :
                   \/ result'.kind = ClaimedOutcome(c, n - 1, StripUpper(ty))
                   \/ \A u \in Users : ~quiz_answer(c, u, n, ty)]_vars

\* C8 as amended: /quiz_answer reports the first failing check in the order
\* InvalidChoice, NoActiveSession, SessionEnded, InvalidQuestionIndex; a
\* button press, whose letter is always one of A-D, in the order
\* NoActiveSession, SessionEnded, InvalidQuestionIndex; either succeeds only
\* when all its checks pass.
C8_ChecksInCodeOrder ==
    [][\A c \in Channels :
          /\ result'.op = "callback"
             => \A i \in buttons[c], ch \in ClickedChoices :
                   \/ /\ ch \in ValidChoices
                      /\ result'.kind = ClaimedOutcome(c, i, ch)
                   \/ \A u \in Users : ~callback(c, u, i, ch)
          /\ result'.op = "quiz_answer"
             => \A ty \in TypedChoices :
                   LET choice == StripUpper(ty)
                   IN  \A n \in QuestionNumbers :
                          \/ result'.kind = ChoiceFirstOutcome(c, n - 1, choice)
                          \/ \A u \in Users : ~quiz_answer(c, u, n, ty)]_vars

\* C8 witness: /quiz_answer with a letter outside A-D was refused with
\* InvalidChoice on a channel that has no session.
C8_Witness ==
    /\ result.op = "quiz_answer"
    /\ result.kind = "InvalidChoice"
    /\ \E c \in Channels : ~Present(c)

----------------------------------------------------------------------------
(* Properties of the results *)

\* The session a leaderboard message reports on.
Reported == heap[result.session]

\* The number of questions for which participant user_id holds the correct
\* letter.
CorrectCount(state, user_id) ==
    Cardinality({i \in 0..(Len(state.questions) - 1) :
        \E j \in 1..Len(Held(state, user_id, i)) :
            StripUpper(Held(state, user_id, i)[j]) =
                StripUpper(state.questions[i + 1].answer)})

\* C9: in the results computed by an end, the participants are those of the
\* answers mapping and each one's score is the number of questions for
\* which the stored answer equals the correct letter; a question never
\* answered contributes nothing.
C9_ScoreCountsCorrectAnswers ==
    result.kind = "Leaderboard" =>
        /\ {result.scores_sorted[i][1] : i \in 1..Len(result.scores_sorted)}
              = Keys(Reported.user_answers)
        /\ Len(result.scores_sorted) = Len(Reported.user_answers)
        /\ \A i \in 1..Len(result.scores_sorted) :
              result.scores_sorted[i][2] =
                  CorrectCount(Reported, result.scores_sorted[i][1])

\* C9 witness: a leaderboard lists a participant who answered two questions,
\* one of them correctly, and a participant who answered only one.
C9_Witness ==
    /\ result.kind = "Leaderboard"
    /\ \E i, j \in 1..Len(result.scores_sorted) :
          /\ result.scores_sorted[i][2] = 1
          /\ Len(Get(Reported.user_answers, result.scores_sorted[i][1])) = 2
          /\ Len(Get(Reported.user_answers, result.scores_sorted[j][1])) = 1

\* The place of participant user_id in the order of first submissions.
FirstSubmission(order, user_id) ==
    CHOOSE i \in 1..Len(order) : order[i] = user_id

\* C10: a leaderboard lists the participants of its session by score
\* descending, those with equal scores in the order in which they first
\* submitted an answer in that session.
C10_LeaderboardOrder ==
    result.kind = "Leaderboard" =>
        LET board == result.scores_sorted
            order == accepted[result.session].order
        IN  /\ {board[i][1] : i \in 1..Len(board)} = Range(order)
            /\ Len(board) = Len(order)
            /\ \A i, j \in 1..Len(board) :
                  i < j =>
                     \/ board[i][2] > board[j][2]
                     \/ /\ board[i][2] = board[j][2]
                        /\ FirstSubmission(order, board[i][1])
                              < FirstSubmission(order, board[j][1])

\* C10 witness: a leaderboard lists two participants with the same score
\* above zero, the one who submitted first leading.
C10_Witness ==
    /\ result.kind = "Leaderboard"
    /\ Len(result.scores_sorted) = 2
    /\ result.scores_sorted[1][2] = result.scores_sorted[2][2]
    /\ result.scores_sorted[1][2] > 0
    /\ accepted[result.session].order
          = <<result.scores_sorted[1][1], result.scores_sorted[2][1]>>
    /\ result.scores_sorted[1][1] = Str(2)

\* The participants of a session who hold an answer for question idx.
Answered(state, idx) ==
    {user_id \in Keys(state.user_answers) : Held(state, user_id, idx) # <<>>}

\* C11: in the breakdown of every question of an ended session the correct
\* and the incorrect list are disjoint, name nobody twice, and together name
\* exactly the participants who hold an answer for that question, the
\* correct list those whose answer is the question's letter.
C11_BreakdownPartitionsAnswerers ==
    [][result'.kind = "QuestionResult" =>
          \A t \in TaskSet :
              display_question(t) =>
                 LET state == heap[t.state]
                     correct == Range(result'.correct_users)
                     incorrect == Range(result'.incorrect_users)
                     letter == StripUpper(state.questions[t.idx + 1].answer)
                 IN  /\ correct \cap incorrect = {}
                     /\ correct \cup incorrect = Answered(state, t.idx)
                     /\ Cardinality(correct) = Len(result'.correct_users)
                     /\ Cardinality(incorrect) = Len(result'.incorrect_users)
                     /\ correct = {u \in Answered(state, t.idx) :
                                      Held(state, u, t.idx) = <<letter>>}]_vars

\* C11 witness: the breakdown of a question names one participant and leaves
\* out another participant of the session, who answered only another
\* question.
C11_Witness ==
    /\ result.kind = "QuestionResult"
    /\ Len(result.correct_users) + Len(result.incorrect_users) = 1
    /\ Len(Reported.user_answers) = 2

\* C12: a channel does not stay Running with an expired deadline: once the
\* deadline of its session has elapsed, the auto-end task ends the quiz and
\* the channel returns to Absent.
C12_ExpiredSessionIsRemoved ==
    \A c \in 1..NumChannels : Expired(c) ~> ~Present(c)

\* C12 witness: an auto-end task has sent the closing message of a session
\* nobody ended manually and has removed it; the channel is Absent.
C12_Witness ==
    /\ result.op = "auto_end_quiz"
    /\ result.kind = "Ended"
    /\ CountKind("manual") = 0
    /\ \E c \in Channels :
          /\ ~Present(c)
          /\ \E s \in Sids : removed[s] = << <<"auto_end_quiz", c>> >>

----------------------------------------------------------------------------
(* Properties of generate_quiz *)

Done == gen.pc = "done"

\* C13: the question source is asked at most once plus three times, whatever
\* it replies, and generate_quiz terminates: every step of it either sends
\* one of these requests or returns.
C13_AtMostFourRequests ==
    /\ [](/\ gen.calls <= 1 + max_regeneration_attempts
          /\ gen.attempt <= max_regeneration_attempts)
    /\ [][gen'.pc = "done" \/ gen'.calls = gen.calls + 1]_gen

\* C13 witness: generate_quiz has returned after the initial request and
\* three regeneration rounds.
C13_Witness ==
    /\ Done
    /\ gen.calls = 1 + max_regeneration_attempts
    /\ gen.attempt = max_regeneration_attempts

\* C14: when the accumulated unique questions reach the target, generate_quiz
\* returns exactly num_questions questions, the first ones accepted, in the
\* order of acceptance.
C14_ExactlyTargetWhenReached ==
    (Done /\ Len(gen.unique_questions) >= gen.num_questions) =>
        /\ gen.returned = "list"
        /\ Len(gen.value) = gen.num_questions
        /\ \A i \in 1..gen.num_questions : gen.value[i] = gen.unique_questions[i]

\* C14 witness: the first batch alone gave more unique questions than asked
\* for.
C14_Witness ==
    /\ Done
    /\ gen.calls = 1
    /\ Len(gen.unique_questions) > gen.num_questions

\* C15: generate_quiz returns None only when no unique question was ever
\* produced (the first reply could not be parsed or held no valid item); in
\* every other case it returns a non-empty list, the whole accumulated set
\* when the rounds are exhausted below the target.
C15_FailureOnlyWithoutQuestions ==
    Done =>
        /\ gen.returned \in {"None", "list"}
        /\ gen.returned = "None" <=> gen.unique_questions = <<>>
        /\ gen.returned = "list" => gen.value # <<>>
        /\ (gen.returned = "list" /\ Len(gen.unique_questions) < gen.num_questions)
              => gen.value = gen.unique_questions

\* C15 witness: the three rounds are used up below the target and the
\* partial set is returned.
C15_Witness ==
    /\ Done
    /\ gen.attempt = max_regeneration_attempts
    /\ gen.returned = "list"
    /\ Len(gen.value) < gen.num_questions
    /\ Len(gen.value) > 0

\* C16: no two questions of a returned list are similar, in either order of
\* comparison, and their topics are pairwise distinct.
C16_ReturnedQuestionsDiverse ==
    (Done /\ gen.returned = "list") =>
        \A i, j \in 1..Len(gen.value) :
            i # j =>
               LET ti == extract_topic_from_question(gen.value[i])
                   tj == extract_topic_from_question(gen.value[j])
               IN  /\ ti # tj
                   /\ ~are_questions_similar(gen.value[i], gen.value[j], ti, tj)

\* C16 witness: a full list of three questions was returned after
\* regeneration.
C16_Witness ==
    /\ Done
    /\ gen.returned = "list"
    /\ gen.calls > 1
    /\ Len(gen.value) = MaxTarget

\* C17: a step of generate_quiz that handles a reply issues a regeneration
\* request exactly when the unique set is still below num_questions and
\* fewer than max_regeneration_attempts rounds have been used.  A first reply
\* that is not a JSON array is left out: the failure it causes is the one
\* the termination rule allows.
RegenerationIssued ==
    /\ gen'.pc = "regen"
    /\ gen'.calls = gen.calls + 1

RegenerationDue ==
    /\ Len(gen'.unique_questions) < gen.num_questions
    /\ gen.attempt < max_regeneration_attempts

C17_RegenerationIffBelowTarget ==
    [][/\ gen.pc = "regen" => (RegenerationIssued <=> RegenerationDue)
       /\ gen.pc = "first" =>
              \A reply \in Replies :
                  reply.kind = "array" /\ generate_quiz_reply(reply)
                      => (RegenerationIssued <=> RegenerationDue)]_gen

\* C18: deduplicate_questions is idempotent: applied to the unique questions
\* it returned, it returns the same unique questions and the same list of
\* used topics.
C18_DeduplicateIdempotent ==
    probe.fn = "deduplicate_again" =>
        /\ probe.second.input = probe.first.unique
        /\ probe.second.unique = probe.first.unique
        /\ probe.second.topics = probe.first.topics

\* The second application has run on the result of a first one that dropped
\* a question and kept more than one.
C18_Witness ==
    /\ probe.fn = "deduplicate_again"
    /\ Len(probe.first.unique) < Len(probe.first.input)
    /\ Len(probe.second.unique) > 1

\* The questions of input at the indices of kept, in input order.
RECURSIVE Pick(_, _)
Pick(input, kept) ==
    IF input = <<>> THEN <<>>
    ELSE LET n == Len(input)
         IN  Pick(SubSeq(input, 1, n - 1), kept \ {n})
                 \o (IF n \in kept THEN <<input[n]>> ELSE <<>>)

TopicsOf(input) ==
    [i \in 1..Len(input) |-> extract_topic_from_question(input[i])]

\* similar[i][j]: question i of input is judged similar to question j.
SimilarIn(input) ==
    LET topic == TopicsOf(input)
    IN  [i \in 1..Len(input) |->
            [j \in 1..Len(input) |->
                are_questions_similar(input[i], input[j], topic[i],
                                      topic[j])]]

\* unique and topics are what one left-to-right pass over input returns
\* when it accepts the questions at the indices of kept.
OnePass(input, unique, topics, kept, similar) ==
    /\ unique = Pick(input, kept)
    /\ input # <<>> => 1 \in kept
    /\ \A i \in 1..Len(input) :
           i \in kept <=> \A j \in kept : j < i => ~similar[i][j]
    /\ topics = TopicsOf(unique)
    /\ (\A i, j \in 1..Len(input) : j < i => ~similar[i][j])
           => unique = input

\* C19 as claimed: deduplicate_questions makes one left-to-right pass (the
\* output is a subsequence of the input, the first question is accepted, a
\* question is accepted exactly when it is similar to none of those accepted
\* before it, the topics are parallel to the questions) and the first
\* occurrence of a topic wins: an accepted question is the first question of
\* its topic in the input.
C19_FirstOccurrenceOfTopicWins ==
    probe.fn = "deduplicate_questions" =>
        LET input == probe.input
            topic == TopicsOf(input)
            similar == SimilarIn(input)
        IN  \E kept \in SUBSET (1..Len(input)) :
                /\ OnePass(input, probe.unique, probe.topics, kept, similar)
                /\ \A i \in kept : \A j \in 1..(i - 1) : topic[j] # topic[i]

\* C19 amended: deduplicate_questions makes one left-to-right pass as
\* above, and the first ACCEPTED question of a topic wins: every later
\* question of that topic is dropped.
C19_FirstAcceptedOfTopicWins ==
    probe.fn = "deduplicate_questions" =>
        LET input == probe.input
            topic == TopicsOf(input)
            similar == SimilarIn(input)
        IN  \E kept \in SUBSET (1..Len(input)) :
                /\ OnePass(input, probe.unique, probe.topics, kept, similar)
                /\ \A i \in kept : \A j \in 1..Len(input) :
                       i < j /\ topic[j] = topic[i] => j \notin kept

\* A list has been deduplicated whose second question, the first of its
\* topic, was dropped as similar to the first, and whose third question,
\* of the topic of the second, was accepted.
C19_Witness ==
    /\ probe.fn = "deduplicate_questions"
    /\ probe.round = 1
    /\ Len(probe.input) = 3
    /\ LET topic == TopicsOf(probe.input)
       IN  /\ topic[1] # topic[2]
           /\ topic[2] = topic[3]
    /\ probe.unique = <<probe.input[1], probe.input[3]>>
    /\ probe.input[1] # probe.input[3]

\* The three rules, from the arguments of a comparison.
TextOf(q) == IF "q" \in DOMAIN q THEN q.q ELSE <<>>

SameTopic == probe.topic1 = probe.topic2

NearlySameText ==
    FuzzRatio(LowerStr(TextOf(probe.q1)), LowerStr(TextOf(probe.q2))) > 85

\* |K1 \cap K2| / |K1 \cup K2| > 0.4, that is 2/5.
KeywordsOverlap ==
    LET K1 == extract_keywords(TextOf(probe.q1))
        K2 == extract_keywords(TextOf(probe.q2))
    IN  /\ K1 # {}
        /\ K2 # {}
        /\ 5 * Cardinality(K1 \cap K2) > 2 * Cardinality(K1 \cup K2)

\* C20: are_questions_similar returns True exactly when the topics are
\* equal, or the ratio of the lowercased texts exceeds 85, or both keyword
\* sets are non-empty and more than 0.4 of their union is shared.  A question
\* is similar to itself under one topic; with an empty keyword set the
\* third rule does not apply, and the quotient is taken of a non-empty union
\* only.
C20_SimilarExactlyByThreeRules ==
    probe.fn = "are_questions_similar" =>
        LET K1 == extract_keywords(TextOf(probe.q1))
            K2 == extract_keywords(TextOf(probe.q2))
        IN  /\ probe.value \in BOOLEAN
            /\ probe.value <=> (SameTopic \/ NearlySameText \/ KeywordsOverlap)
            /\ probe.q1 = probe.q2 /\ SameTopic => probe.value
            /\ K1 = {} \/ K2 = {} =>
                   (probe.value <=> (SameTopic \/ NearlySameText))
            /\ K1 # {} /\ K2 # {} => Cardinality(K1 \cup K2) > 0

\* Two questions of different topics and texts were found similar by their
\* keywords alone.
C20_Witness ==
    /\ probe.fn = "are_questions_similar"
    /\ probe.value
    /\ ~SameTopic
    /\ ~NearlySameText
    /\ KeywordsOverlap

\* The letter of a question as a position of its options, from 1.
CorrectPosition(question) == Ord(StripUpper(question.answer)) + 1

\* C21: after shuffle_quiz_options the option under the new correct letter
\* is the option that stood under the old one, followed by position through
\* the permutation, and the new letter is one of A-D.
C21_CorrectOptionTrackedByPosition ==
    probe.fn = "shuffle_quiz_options" =>
        LET old == CorrectPosition(probe.question)
            new == CorrectPosition(probe.returned)
        IN  /\ probe.returned.answer \in ValidChoices
            /\ probe.perm[new] = old
            /\ probe.returned.options[new] = probe.question.options[old]

\* A question with two options of the correct option's text has been
\* shuffled so that the other one of the two comes first.
C21_Witness ==
    /\ probe.fn = "shuffle_quiz_options"
    /\ LET old == CorrectPosition(probe.question)
           new == CorrectPosition(probe.returned)
       IN  /\ new # old
           /\ \E i \in 1..(new - 1) :
                  probe.returned.options[i] = probe.question.options[old]

\* How often an option text occurs among options.
Occurrences(options, text) ==
    Cardinality({i \in 1..Len(options) : options[i] = text})

\* C22: shuffle_quiz_options changes the order of the options and the
\* letter only: the options returned are the NumOptions options of the
\* question as a multiset, q and explain are the question's, topic and page
\* are the question's when it has them and absent otherwise, and the
\* question passed in is as it was.
C22_ShuffleChangesOrderOnly ==
    probe.fn = "shuffle_quiz_options" =>
        LET question == probe.question
            returned == probe.returned
        IN  /\ Len(returned.options) = NumOptions
            /\ \A i \in 1..NumOptions :
                   Occurrences(returned.options, question.options[i])
                       = Occurrences(question.options, question.options[i])
            /\ returned.q = question.q
            /\ returned.explain = question.explain
            /\ DOMAIN returned = DOMAIN question
            /\ \A field \in {"topic", "page"} \cap DOMAIN question :
                   returned[field] = question[field]
            /\ probe.argument = question

\* A question with a page reference and no topic tag has been shuffled into
\* another order.
C22_Witness ==
    /\ probe.fn = "shuffle_quiz_options"
    /\ "page" \in DOMAIN probe.question
    /\ "topic" \notin DOMAIN probe.question
    /\ probe.returned.options # probe.question.options

StartRejections == {"InvalidQuestionCount", "InvalidDuration"}

\* C23: /quiz_start with a question count outside MinQuestions..MaxQuestions
\* or a duration outside MinDuration..MaxDuration is rejected and changes
\* nothing: no session is stored, no task (generation, deadline watcher) is
\* created, the generator is not started, the sessions there are stay as
\* they were.
C23_InvalidStartChangesNothing ==
    [][result'.op = "quiz_start" =>
          \A c \in Channels, n \in QuestionCounts, d \in Durations :
              (n \notin MinQuestions..MaxQuestions
                  \/ d \notin MinDuration..MaxDuration)
              => \/ /\ result'.kind \in StartRejections
                    /\ UNCHANGED <<QUIZ_STATE, heap, allocated, tasks,
                                   buttons, gen, accepted, reported, removed>>
                 \/ \A u \in Initiators : ~quiz_start(c, u, n, d)]_vars

\* A start with a bad duration was rejected on a channel whose session holds
\* an answer.
C23_Witness ==
    /\ result.op = "quiz_start"
    /\ result.kind = "InvalidDuration"
    /\ \E c \in Channels :
          /\ Present(c)
          /\ Session(c).user_answers # <<>>

\* The letter a session dict holds for a participant and a question index,
\* <<>> when it holds none.
Entry(state, u, i) == Previous(state, Str(u), i)

Indices == 0..(limits.pool - 1)

\* Between heap cell before and after, only the entry of u for i differs,
\* and that entry is choice.
OnlyEntryWritten(before, after, u, i, choice) ==
    /\ Entry(after, u, i) = choice
    /\ \A v \in Users, j \in Indices :
           <<v, j>> # <<u, i>> => Entry(after, v, j) = Entry(before, v, j)
    /\ Keys(after.user_answers) = Keys(before.user_answers) \cup {Str(u)}
    /\ after.questions = before.questions
    /\ after.end_time = before.end_time
    /\ after.duration_minutes = before.duration_minutes
    /\ after.initiator = before.initiator

\* A step that records the submission of u for index i on channel c writes
\* that entry of the channel's session and nothing else.
RecordsOnly(c, u, i, choice) ==
    LET sid == QUIZ_STATE[c]
    IN  /\ QUIZ_STATE' = QUIZ_STATE
        /\ \A other \in Sids \ {sid} : heap'[other] = heap[other]
        /\ OnlyEntryWritten(heap[sid], heap'[sid], u, i, choice)

\* C29: a successful submission of participant u for question index i
\* inserts or overwrites the entry (u, i) only; the other entries, the
\* questions, the deadline, the duration and the initiator stay; and from a
\* session dict that stays referenced no entry is ever removed.
C29_SubmissionWritesOneEntry ==
    [][/\ (result'.kind = "Recorded" /\ result'.op = "callback")
          => \A c \in Channels, i \in Indices, ch \in ClickedChoices,
                u \in Users :
                 callback(c, u, i, ch) => RecordsOnly(c, u, i, ch)
       /\ (result'.kind = "Recorded" /\ result'.op = "quiz_answer")
          => \A c \in Channels, n \in QuestionNumbers, ty \in TypedChoices,
                u \in Users :
                 quiz_answer(c, u, n, ty)
                     => RecordsOnly(c, u, n - 1, StripUpper(ty))
       /\ \A sid \in Sids :
             heap'[sid] # FreeCell
                 => \A v \in Users, j \in Indices :
                        Entry(heap[sid], v, j) # <<>>
                            => Entry(heap'[sid], v, j) # <<>>]_vars

\* A participant who had answered both questions has overwritten one of the
\* answers, which another participant had answered too.
C29_Witness ==
    /\ result.kind = "Recorded"
    /\ result.replaced # <<>>
    /\ \E c \in Channels, u, v \in Users :
          /\ u # v
          /\ Present(c)
          /\ \A i \in Indices : Entry(Session(c), u, i) # <<>>
          /\ \E i \in Indices : Entry(Session(c), v, i) # <<>>
          /\ Cardinality(Indices) > 1

\* The answers mapping of a session dict as a set of triples.
Mapping(state) ==
    {<<x[1], x[2], Entry(state, x[1], x[2])>> :
        x \in {y \in Users \X Indices : Entry(state, y[1], y[2]) # <<>>}}

\* The submissions the handlers can record: participant, index, letter.  A
\* handler reaches its write without suspending, so the handlers of several
\* submissions interleave as their writes one after another.
Submissions == Users \X Indices \X {choices[1], choices[2]}

Written(state, x) == StoreAnswer(state, Str(x[1]), x[2], x[3])

\* C28: on every session that accepts answers, two submissions of different
\* (participant, question) keys leave the same mapping in either order, with
\* both entries in it and every other entry kept; two submissions of one key
\* leave the letter of the later one.
C28_SubmissionsCommute ==
    \A c \in Channels :
        Present(c) /\ ~Expired(c) =>
            \A a, b \in Submissions :
                LET state == Session(c)
                    ab == Written(Written(state, a), b)
                    ba == Written(Written(state, b), a)
                IN  IF <<a[1], a[2]>> # <<b[1], b[2]>>
                    THEN /\ Mapping(ab) = Mapping(ba)
                         /\ {a, b} \subseteq Mapping(ab)
                         /\ \A x \in Mapping(state) :
                                x \in Mapping(ab)
                                    \/ <<x[1], x[2]>> = <<a[1], a[2]>>
                                    \/ <<x[1], x[2]>> = <<b[1], b[2]>>
                    ELSE /\ b \in Mapping(ab)
                         /\ a \in Mapping(ba)
                         /\ Cardinality(Mapping(ab)) = Cardinality(Mapping(ba))

\* Two participants have answered different questions of a session that
\* still accepts answers.
C28_Witness ==
    \E c \in Channels :
        /\ Present(c)
        /\ ~Expired(c)
        /\ \E x, y \in Mapping(Session(c)) : x[1] # y[1] /\ x[2] # y[2]
        /\ result.kind = "Recorded"

\* C27: while a channel has a session, from its creation to its removal, the
\* questions of the channel's session (their order, their shuffled options,
\* their letters) are the same after every step.
C27_ChannelQuestionsFrozen ==
    [][\A c \in Channels :
          QUIZ_STATE[c] # NoRef /\ QUIZ_STATE'[c] # NoRef
              => heap'[QUIZ_STATE'[c]].questions
                     = heap[QUIZ_STATE[c]].questions]_vars

\* The question numbers, from 1, that participant u has answered in state.
AnsweredNumbers(state, u) ==
    {i + 1 : i \in {j \in Indices : Entry(state, u, j) # <<>>}}

Ascending(list) ==
    \A i, j \in 1..Len(list) : i < j => list[i] < list[j]

\* C25: /quiz_score changes neither the channel-to-session map nor any
\* session (no entry is created for a participant without answers) nor any
\* task, and on a channel with a session it shows the number of questions
\* the participant has answered, the number of questions of the session and
\* the answered question numbers from 1 in ascending order.
C25_ProgressIsReadOnly ==
    [][result'.op = "quiz_score" =>
          \A c \in Channels, seconds \in ClockSeconds, u \in Users :
              quiz_score(c, u, seconds) =>
                  /\ UNCHANGED <<QUIZ_STATE, heap, allocated, tasks, buttons,
                                 reported, removed, accepted, now>>
                  /\ Present(c) =>
                         LET shown == result'.progress
                             state == Session(c)
                         IN  /\ result'.kind = "Progress"
                             /\ shown.answered_count =
                                    Cardinality(AnsweredNumbers(state, u))
                             /\ shown.total_q = Len(state.questions)
                             /\ Range(shown.answered_questions) =
                                    AnsweredNumbers(state, u)
                             /\ Ascending(shown.answered_questions)]_vars

\* Progress was shown to a participant who answered the second question
\* before the first, in a session where another participant has no entry.
C25_Witness ==
    /\ result.op = "quiz_score"
    /\ result.kind = "Progress"
    /\ result.progress.answered_questions = <<1, 2>>
    /\ \E c \in Channels, u \in Users :
          /\ Present(c)
          /\ Keys(Session(c).user_answers) = {Str(u)}
          /\ Get(Session(c).user_answers, Str(u))[1][1] = 1
          /\ Cardinality(Users) > 1

\* C26: the remaining time /quiz_score shows is the deadline minus the clock
\* in whole seconds, never negative, and 0 minutes 0 seconds when the clock
\* has reached the deadline.
C26_RemainingTimeClamped ==
    [][result'.op = "quiz_score" /\ result'.kind = "Progress" =>
          \A c \in Channels, seconds \in ClockSeconds, u \in Users :
              quiz_score(c, u, seconds) /\ Present(c) =>
                  LET shown == result'.progress
                      remaining == (Session(c).end_time - now)
                                       * SecondsPerMinute - seconds
                  IN  /\ shown.minutes_remaining >= 0
                      /\ shown.seconds_remaining >= 0
                      /\ remaining >= 0 =>
                             shown.minutes_remaining * SecondsPerMinute
                                 + shown.seconds_remaining = remaining
                      /\ remaining <= 0 =>
                             /\ shown.minutes_remaining = 0
                             /\ shown.seconds_remaining = 0]_vars

\* The generator has used all its regeneration rounds and holds some
\* questions, but fewer than num_questions.
ExhaustedWithPartialSet(num_questions) ==
    /\ gen.attempt = max_regeneration_attempts
    /\ Len(gen.unique_questions) > 0
    /\ Len(gen.unique_questions) < num_questions

\* C24: every session that /quiz_start creates holds at least one and at
\* most the requested number of questions, and it holds fewer than requested
\* exactly when the generator used all its rounds and ended with a non-empty
\* partial set.
C24_PartialGenerationIsReducedSuccess ==
    [][result'.op = "quiz_start" /\ result'.kind = "Started" =>
          \A t \in TaskSet :
              quiz_start_resumed(t) =>
                  LET created == heap'[QUIZ_STATE'[t.channel]].questions
                  IN  /\ Len(created) >= 1
                      /\ Len(created) <= t.num_questions
                      /\ Len(created) < t.num_questions
                             <=> ExhaustedWithPartialSet(t.num_questions)]_vars

\* A session was created with fewer questions than were requested.
C24_Witness ==
    /\ result.op = "quiz_start"
    /\ result.kind = "Started"
    /\ \E c \in Channels :
           /\ Present(c)
           /\ Len(Session(c).questions) >= 1
           /\ Len(Session(c).questions) < limits.pool

\* A reply generate_quiz cannot use as it is: no JSON, no array, or an
\* array with a malformed item.
Malformed(reply) ==
    \/ ParseRaises(reply) # "none"
    \/ \E i \in 1..Len(reply.items) : TopicRaises(reply.items[i])

\* C30: whatever the question source replies (text that is no JSON, JSON
\* that is no array, an array with malformed items), generate_quiz ends by
\* returning a sequence of well-formed questions or None; no exception
\* leaves it.
C30_NoExceptionLeavesGenerator ==
    gen.pc = "done" =>
        \/ /\ gen.returned = "None"
           /\ gen.value = <<>>
        \/ /\ gen.returned = "list"
           /\ gen.value # <<>>
           /\ \A i \in 1..Len(gen.value) :
                  /\ IsDict(gen.value[i])
                  /\ RequiredKeys \subseteq DOMAIN gen.value[i]
                  /\ "numeric" \notin DOMAIN gen.value[i]

\* generate_quiz has returned questions although a regeneration reply held
\* a malformed item.
C30_Witness ==
    /\ gen.pc = "done"
    /\ gen.returned = "list"
    /\ probe.fn = "source"
    /\ ~Malformed(probe.reply)
    /\ gen.attempt > 0
    /\ probe.regen_reply.kind = "array"
    /\ Malformed(probe.regen_reply)

\* The content words among the words of a text: lowercased, alphabetic, no
\* stopword, longer than three characters.
ContentOf(words) ==
    LET lowered == [i \in 1..Len(words) |-> LowerStr(words[i])]
        Content(w) ==
            /\ \A i \in 1..Len(w) : w[i] \in Letters(LowerLetters)
            /\ w \notin STOPWORDS
            /\ Len(w) > 3
    IN  SelectSeq(lowered, Content)

Frequency(content, w) ==
    Cardinality({i \in 1..Len(content) : content[i] = w})

FirstOccurrence(content, w) ==
    CHOOSE i \in 1..Len(content) :
        /\ content[i] = w
        /\ \A j \in 1..(i - 1) : content[j] # w

\* w is more frequent than v, or as frequent and seen first.
Precedes(content, w, v) ==
    \/ Frequency(content, w) > Frequency(content, v)
    \/ /\ Frequency(content, w) = Frequency(content, v)
       /\ FirstOccurrence(content, w) < FirstOccurrence(content, v)

\* tag is topic without the white space at its ends, in lower case.
LoweredAndTrimmed(tag, topic) ==
    /\ tag = <<>> \/ (tag[1] \notin Whitespace /\ tag[Len(tag)] \notin Whitespace)
    /\ \E i \in 1..(Len(topic) + 1) :
           /\ i + Len(tag) - 1 <= Len(topic)
           /\ \A k \in 1..Len(tag) : tag[k] = Lower(topic[i + k - 1])
           /\ \A k \in 1..Len(topic) :
                  k < i \/ k > i + Len(tag) - 1 => topic[k] \in Whitespace

\* C33: extract_topic_from_question returns the supplied tag, lowercased and
\* trimmed, when the question has a non-empty one; otherwise the two most
\* frequent content words of the text joined by a hyphen (equally frequent
\* ones in the order of first occurrence), the only content word when there
\* is one, and "unknown" when there is none.
C33_TopicFromTagOrText ==
    probe.fn = "extract_topic_from_question" =>
        LET question == probe.question
            content == ContentOf(probe.words)
            distinct == {content[i] : i \in 1..Len(content)}
        IN  IF "topic" \in DOMAIN question /\ Len(question.topic) > 0
            THEN LoweredAndTrimmed(probe.value, question.topic)
            ELSE IF distinct = {} THEN probe.value = Unknown
            ELSE IF Cardinality(distinct) = 1
            THEN probe.value \in distinct
            ELSE \E first \in distinct : \E second \in distinct \ {first} :
                    /\ \A w \in distinct \ {first} :
                           Precedes(content, first, w)
                    /\ \A w \in distinct \ {first, second} :
                           Precedes(content, second, w)
                    /\ probe.value = first \o <<"-">> \o second

\* Three distinct content words, the last one twice: it comes first in the
\* topic, before the first of the two that occur once.
C33_Witness ==
    /\ probe.fn = "extract_topic_from_question"
    /\ "topic" \notin DOMAIN probe.question
    /\ LET content == ContentOf(probe.words)
       IN  /\ Len(content) = 3
           /\ content[1] # content[2]
           /\ content[2] = content[3]
           /\ probe.value = content[2] \o <<"-">> \o content[1]

\* The checks of an item, as the claim states them.
PassesChecks(item) ==
    /\ IsDict(item)
    /\ RequiredKeys \subseteq DOMAIN item
    /\ Len(item.options) = NumOptions
    /\ ~IsNumber(item, "answer")
    /\ StripUpper(item.answer) \in ValidChoices

\* The items of a batch that pass the checks, with the answer normalised.
RECURSIVE Passing(_)
Passing(items) ==
    IF items = <<>> THEN <<>>
    ELSE (IF PassesChecks(Head(items))
          THEN <<[Head(items) EXCEPT !.answer = StripUpper(@)]>>
          ELSE <<>>) \o Passing(Tail(items))

\* A batch all of whose items can be compared with earlier questions.
TopicsReadable(items) ==
    \A i \in 1..Len(items) : ~TopicRaises(items[i])

\* C31: every question generate_quiz returns has q, options, answer and
\* explain, four options and an answer in A-D; an item of a batch that fails
\* these checks is dropped without the other items of the batch being
\* rejected: the batch is treated like the batch of its passing items.
C31_InvalidItemsDroppedAlone ==
    [][/\ gen.returned' = "list" =>
              \A i \in 1..Len(gen.value') : PassesChecks(gen.value'[i])
       /\ gen.pc = "first" /\ gen.pc' # "first" /\ probe.reply.kind = "array"
              /\ TopicsReadable(probe.reply.items)
          => LET passing == Passing(probe.reply.items)
             IN  IF passing = <<>> THEN gen.returned' = "None"
                 ELSE gen.unique_questions' =
                          deduplicate_questions(passing)[1]
       /\ gen.pc = "regen" /\ probe.regen_reply.kind = "array"
              /\ TopicsReadable(probe.regen_reply.items)
          => gen.unique_questions' =
                 AddNonDuplicates(gen.unique_questions, gen.used_topics,
                                  Passing(probe.regen_reply.items),
                                  gen.num_questions)[1]]_vars

\* C32: a click on a button that was posted for an earlier session of the
\* channel, which has ended, is rejected: an answer is recorded only into
\* the session the clicked button was posted for.
C32_StaleIndexRejected ==
    [][result'.op = "callback" /\ result'.kind = "Recorded" =>
          \A u \in Users, ch \in ClickedChoices :
              clicked(u, ch) => result'.session = probe.session]_vars

\* A reply that cannot be parsed or validated: no JSON, no array, an array
\* the validation loop raises on, or one without an item that passes.
Unusable(reply) ==
    \/ ParseRaises(reply) # "none"
    \/ Passing(reply.items) = <<>>

IsPrefix(s, t) == Len(s) <= Len(t) /\ SubSeq(t, 1, Len(s)) = s

\* C35: a regeneration round whose reply cannot be parsed or validated is
\* one of the three rounds and leaves the unique questions and the used
\* topics as they were: the next round follows, or after the third round
\* the accumulated questions are returned.  No round removes a question
\* accepted earlier.
C35_FailedRoundKeepsQuestions ==
    [][gen.pc = "regen" =>
          /\ IsPrefix(gen.unique_questions, gen.unique_questions')
          /\ IsPrefix(gen.used_topics, gen.used_topics')
          /\ Unusable(probe.regen_reply) =>
                 /\ gen.unique_questions' = gen.unique_questions
                 /\ gen.used_topics' = gen.used_topics
                 /\ IF gen.attempt < max_regeneration_attempts
                    THEN /\ gen.pc' = "regen"
                         /\ gen.attempt' = gen.attempt + 1
                    ELSE /\ gen.pc' = "done"
                         /\ gen.returned' = "list"
                         /\ gen.value' = gen.unique_questions
                         /\ gen.value' # <<>>]_vars

\* Three rounds were used up by replies that cannot be parsed or validated,
\* and the questions of the first reply have been returned.
C35_Witness ==
    /\ gen.pc = "done"
    /\ probe.fn = "source"
    /\ Unusable(probe.regen_reply)
    /\ gen.attempt = max_regeneration_attempts
    /\ gen.returned = "list"
    /\ gen.value = gen.unique_questions
    /\ gen.value # <<>>

\* C34: when generate_quiz fails, /quiz_start stores no session under any
\* channel and creates no deadline watcher, the channel stays without a
\* session, and the next /quiz_start on the channel is not answered with
\* "already running".
C34_FailedStartLeavesChannelAbsent ==
    [][/\ \A t \in TaskSet :
              gen.returned = "None" /\ quiz_start_resumed(t) =>
                  /\ QUIZ_STATE' = QUIZ_STATE
                  /\ QUIZ_STATE'[t.channel] = NoRef
                  /\ heap' = heap
                  /\ allocated' = allocated
                  /\ \A x \in BagToSet(tasks') :
                         x.kind = "auto" =>
                             x \in BagToSet(tasks) /\ tasks'[x] = tasks[x]
                  /\ result'.kind = "GenerationFailed"
       /\ result.kind = "GenerationFailed" /\ result'.op = "quiz_start"
              => result'.kind # "AlreadyRunning"]_vars

\* The generator has failed and /quiz_start has reported it; no session and
\* no coroutine is left.
C34_Witness ==
    /\ result.op = "quiz_start"
    /\ result.kind = "GenerationFailed"
    /\ gen = GenIdle
    /\ tasks = EmptyBag
    /\ \A c \in Channels : ~Present(c)

AnswerLetters == {<<"A">>, <<"B">>, <<"C">>, <<"D">>}

\* C38: in every session that is stored under a channel or held by a
\* coroutine, every stored answer has a question index from 0 to the number
\* of questions less one and a letter A, B, C or D, and every participant
\* who has an entry has at least one answer in it.
C38_StoredAnswersWellFormed ==
    \A s \in Referenced(QUIZ_STATE, tasks) :
        \A k \in 1..Len(heap[s].user_answers) :
            LET answers == heap[s].user_answers[k][2]
            IN  /\ Len(answers) >= 1
                /\ \A j \in 1..Len(answers) :
                       /\ answers[j][1] >= 0
                       /\ answers[j][1] < Len(heap[s].questions)
                       /\ answers[j][2] \in AnswerLetters

\* Two participants have entries in a session of two questions, one of them
\* with an answer to each question, after a submission was refused for its
\* question number.
C38_Witness ==
    /\ result.kind = "InvalidQuestionIndex"
    /\ \E c \in Channels :
          /\ Present(c)
          /\ Len(Session(c).questions) = 2
          /\ Len(Session(c).user_answers) = 2
          /\ \E k \in 1..2 : Len(Session(c).user_answers[k][2]) = 2

----------------------------------------------------------------------------
(* Answers and reports *)

\* The reports of session sid that are being delivered.
ReportsOf(sid) == {t \in TaskSet : t.pc = "results" /\ t.state = sid}

\* Session sid stops being the session of its channel in this step.
Leaves(sid) ==
    \E c \in Channels : QUIZ_STATE[c] = sid /\ QUIZ_STATE'[c] # sid

\* C36: no acknowledged answer is lost: when a session stops being the
\* session of its channel, every accepted answer that the same participant
\* did not overwrite was counted in the leaderboard of a report of that
\* session.
C36_NoAcknowledgedAnswerLost ==
    [][\A sid \in Sids :
          Leaves(sid) =>
              \A x \in accepted[sid].latest :
                  \E t \in ReportsOf(sid) : x \in t.scored]_vars

\* The participants on the leaderboard of report t.
OnLeaderboard(t) == {t.scores[i][1] : i \in 1..Len(t.scores)}

\* C37: a report is computed from one snapshot of the answers: every
\* participant a breakdown lists is on the leaderboard of that report and,
\* when the report is complete, every leaderboard score is the number of
\* questions whose breakdown listed the participant as correct.
C37_ReportFromOneSnapshot ==
    [][\A t \in TaskSet :
          /\ display_question(t) =>
                 (Range(result'.correct_users)
                      \cup Range(result'.incorrect_users))
                     \subseteq OnLeaderboard(t)
          /\ display_cleanup(t) =>
                 \A i \in 1..Len(t.scores) :
                     t.scores[i][2] =
                         Cardinality({x \in t.listed : x[1] = t.scores[i][1]})]_vars

\* The participants with an accepted answer in session sid.
Participants(sid) == {x[1] : x \in accepted[sid].latest}

\* C40: the leaderboard of a report lists exactly the participants with an
\* accepted answer in its session, each once, with a score from 0 to the
\* number of questions; it says that no one submitted answers exactly when
\* it lists nobody.
C40_LeaderboardListsParticipants ==
    [][/\ (result'.kind = "Leaderboard" /\ reported' # reported) =>
              ((result'.description = "No one submitted answers!")
                   <=> (result'.scores_sorted = <<>>))
       /\ \A t \in TaskSet :
              display_cleanup(t) =>
                  /\ OnLeaderboard(t) = Participants(t.state)
                  /\ \A i, j \in 1..Len(t.scores) :
                         t.scores[i][1] = t.scores[j][1] => i = j
                  /\ \A i \in 1..Len(t.scores) :
                         t.scores[i][2] \in 0..Len(heap[t.state].questions)]_vars

----------------------------------------------------------------------------
(* Channels *)

\* The step is one of a command, a click or a coroutine of channel c.
ActsOn(c) ==
    \/ \E u \in Initiators, n \in QuestionCounts, d \in Durations :
          quiz_start(c, u, n, d)
    \/ \E u \in Users, i \in 0..(limits.pool - 1), ch \in ClickedChoices :
          callback(c, u, i, ch)
    \/ \E u \in Users, n \in QuestionNumbers, ty \in TypedChoices :
          quiz_answer(c, u, n, ty)
    \/ \E u \in Users, seconds \in ClockSeconds : quiz_score(c, u, seconds)
    \/ quiz_end(c)
    \/ \E t \in TaskSet :
          /\ t.channel = c
          /\ \/ quiz_start_generated(t)
             \/ auto_end_quiz(t)
             \/ quiz_end_deferred(t)
             \/ display_question(t)
             \/ display_cleanup(t)

\* The step creates, changes or removes the session of channel d, or an
\* answer is accepted into it.
Changes(d) ==
    \/ QUIZ_STATE'[d] # QUIZ_STATE[d]
    \/ /\ QUIZ_STATE[d] # NoRef
       /\ \/ heap'[QUIZ_STATE[d]] # heap[QUIZ_STATE[d]]
          \/ accepted'[QUIZ_STATE[d]] # accepted[QUIZ_STATE[d]]

\* The number of accepted answers of user in session sid that are correct.
CorrectOf(sid, user) ==
    Cardinality({x \in accepted[sid].latest :
                    /\ x[1] = user
                    /\ x[3] = StripUpper(heap[sid].questions[x[2] + 1].answer)})

\* C39: a step of channel c neither creates, changes nor removes the
\* session of another channel d, and what a report of c's session says is
\* a function of the answers accepted on c: its leaderboard lists the
\* participants of that session with their numbers of correct answers and
\* its breakdowns list participants of that session only.
C39_ChannelsIndependent ==
    [][\A c \in Channels :
          /\ \A d \in Channels \ {c} : Changes(d) => ~ActsOn(c)
          /\ LET sid == QUIZ_STATE[c]
             IN  (sid # NoRef /\ result'.session = sid) =>
                     /\ result'.kind = "Leaderboard" =>
                            Range(result'.scores_sorted) =
                                {<<u, CorrectOf(sid, u)>> :
                                   u \in Participants(sid)}
                     /\ result'.kind = "QuestionResult" =>
                            (Range(result'.correct_users)
                                 \cup Range(result'.incorrect_users))
                                \subseteq Participants(sid)]_vars

\* C39 witness: both channels have a session, the participant has answered
\* on channel 1 only, and the report of channel 2 has just sent its
\* leaderboard.
C39_Witness ==
    /\ limits.channels > 1
    /\ QUIZ_STATE[1] # NoRef
    /\ QUIZ_STATE[2] # NoRef
    /\ QUIZ_STATE[1] # QUIZ_STATE[2]
    /\ heap[QUIZ_STATE[1]].user_answers # <<>>
    /\ result.kind = "Leaderboard"
    /\ result.session = QUIZ_STATE[2]
    /\ result.description = "No one submitted answers!"

====
